---- MODULE Spec2Model ----
(***************************************************************************)
(* A model of the map components of the Human & Environment visualization  *)
(* front end: CombinedEverythingMap and CombinedMap                         *)
(* (src/components/Merged.tsx), UrbanRoadMap (src/app/page.tsx), PlotlyMap *)
(* (src/components/PlotlyMap.tsx) and the sidebar HomePage                  *)
(* (unnamed/part_002).                                                      *)
(*                                                                         *)
(* JavaScript values are tagged records, GeoJSON features are records of a  *)
(* geometry and a property bag (a function from property names to values). *)
(* Coordinates are integers (scaled degrees); a quotient is kept as the     *)
(* pair of its numerator and denominator, so means are exact.               *)
(***************************************************************************)
EXTENDS Integers, Sequences, FiniteSets, TLC

(***************************************************************************)
(* JavaScript values                                                        *)
(***************************************************************************)
Undefined == [k |-> "undefined"]
Null == [k |-> "null"]
Str(s) == [k |-> "str", s |-> s]
Num(n) == [k |-> "num", n |-> n]
NaN == [k |-> "NaN"]

\* a ?? b
Nullish(a, b) == IF a \in {Undefined, Null} THEN b ELSE a

\* x != null
NotNull(x) == x \notin {Undefined, Null}

\* String(v) and `${v}`
JsString(v) ==
  CASE v.k = "str" -> v.s
    [] v.k = "num" -> ToString(v.n)
    [] v.k = "null" -> "null"
    [] v.k = "undefined" -> "undefined"
    [] OTHER -> "NaN"

\* p.name: reading a property of a property bag
Get(p, name) == IF name \in DOMAIN p THEN p[name] ELSE Undefined

\* p.name = v
SetProp(p, name, v) ==
  [x \in (DOMAIN p) \cup {name} |-> IF x = name THEN v ELSE p[x]]

\* table[key] on a Record<string, string>: the key is converted to a string.
\* The categorical values of the data files are not names of members of
\* Object.prototype, so a key that the table does not hold is a miss.
Lookup(table, key) ==
  IF JsString(key) \in DOMAIN table THEN Str(table[JsString(key)]) ELSE Undefined

\* v?.toLocaleString() ?? 'N/A'  (the numbers of the model are integers below
\* 1000, which toLocaleString prints as String does)
LocaleOrNA(v) == IF NotNull(v) THEN JsString(v) ELSE "N/A"

\* Number(v).toLocaleString()
NumberLocale(v) == IF v.k = "num" THEN ToString(v.n) ELSE "NaN"

(***************************************************************************)
(* Quotients                                                                *)
(***************************************************************************)
\* s / n as JavaScript computes it for a sum s of n terms: 0 / 0 is NaN
Div(s, n) == IF n = 0 THEN NaN ELSE [k |-> "quot", num |-> s, den |-> n]

RECURSIVE SumAt(_, _)
\* coords.reduce((s, c) => s + c[i], 0)
SumAt(coords, i) ==
  IF coords = <<>> THEN 0 ELSE Head(coords)[i] + SumAt(Tail(coords), i)

RECURSIVE Flat(_)
\* Array.prototype.flat(): one level
Flat(xs) == IF xs = <<>> THEN <<>> ELSE Head(xs) \o Flat(Tail(xs))

(***************************************************************************)
(* Lookup tables                                                            *)
(***************************************************************************)
plantColors ==
  [O |-> "#d9d9d9", L |-> "#a6cee3", M |-> "#1f78b4", H |-> "#b2df8a",
   VH |-> "#33a02c", OLO |-> "#fb9a99"]

habitatColors ==
  [Hawaii |-> "#1f78b4", Oahu |-> "#33a02c", Maui |-> "#e31a1c",
   Kauai |-> "#ff7f00", Molokai |-> "#6a3d9a", Lanai |-> "#b15928"]

densityColor ==
  [O |-> "#d9d9d9", L |-> "#a6cee3", M |-> "#1f78b4", H |-> "#b2df8a",
   VH |-> "#33a02c", OLO |-> "#fb9a99"]

densityMeaning ==
  [O |-> "Little or no T&E species.",
   L |-> "Low concentration of T&E species.",
   M |-> "Medium concentration of T&E species.",
   H |-> "High concentration of T&E species.",
   VH |-> "Very high concentration of T&E species.",
   OLO |-> "OL in cane fields, L in gullies and coastal areas."]

urbanPalette ==
  << "rgba(31,119,180,0.45)", "rgba(255,127,14,0.45)", "rgba(44,160,44,0.45)",
     "rgba(214,39,40,0.45)", "rgba(148,103,189,0.45)", "rgba(140,86,75,0.45)",
     "rgba(227,119,194,0.45)", "rgba(127,127,127,0.45)", "rgba(188,189,34,0.45)",
     "rgba(23,190,207,0.45)" >>

lulcLabels ==
  ("11" :> "Residential") @@ ("12" :> "Commercial and Services") @@
  ("13" :> "Industrial") @@
  ("14" :> "Transportation, Communications and Utilities") @@
  ("15" :> "Industrial and Commercial Complexes") @@
  ("16" :> "Mixed Urban or Built-up Land") @@
  ("17" :> "Other Urban or Built-up Land") @@
  ("21" :> "Cropland and Pasture") @@
  ("22" :> "Orchards, Groves, Vineyards, Nurseries") @@
  ("23" :> "Confined Feeding Operations") @@
  ("24" :> "Other Agricultural Land") @@
  ("31" :> "Herbaceous Rangeland") @@ ("32" :> "Shrub and Brush Rangeland") @@
  ("33" :> "Mixed Rangeland") @@ ("41" :> "Deciduous Forest Land") @@
  ("42" :> "Evergreen Forest Land") @@ ("43" :> "Mixed Forest Land") @@
  ("51" :> "Streams and Canals") @@ ("52" :> "Lakes") @@
  ("53" :> "Reservoirs") @@ ("54" :> "Bays and Estuaries") @@
  ("61" :> "Forested Wetland") @@ ("62" :> "Nonforested Wetland") @@
  ("71" :> "Dry Salt Flats") @@ ("72" :> "Beaches") @@
  ("73" :> "Sandy Areas Other than Beaches") @@ ("74" :> "Bare Exposed Rock") @@
  ("75" :> "Strip Mines, Quarries, and Gravel Pits") @@
  ("76" :> "Transitional Areas") @@ ("77" :> "Mixed Barren Land") @@
  ("81" :> "Shrub and Brush Tundra") @@ ("82" :> "Herbaceous Tundra") @@
  ("83" :> "Bare Ground") @@ ("84" :> "Wet Tundra") @@ ("85" :> "Mixed Tundra") @@
  ("91" :> "Perennial Snowfields or Ice") @@ ("92" :> "Glaciers")

lulcColors ==
  ("11" :> "#e31a1c") @@ ("12" :> "#fb9a99") @@ ("13" :> "#984ea3") @@
  ("14" :> "#a6cee3") @@ ("15" :> "#b15928") @@ ("16" :> "#cab2d6") @@
  ("17" :> "#ffff99") @@ ("21" :> "#fdbf6f") @@ ("22" :> "#ff7f00") @@
  ("23" :> "#b2df8a") @@ ("24" :> "#33a02c") @@ ("31" :> "#ffffb3") @@
  ("32" :> "#bebada") @@ ("33" :> "#fccde5") @@ ("41" :> "#238b45") @@
  ("42" :> "#006d2c") @@ ("43" :> "#74c476") @@ ("51" :> "#08519c") @@
  ("52" :> "#3182bd") @@ ("53" :> "#6baed6") @@ ("54" :> "#9ecae1") @@
  ("61" :> "#2ca25f") @@ ("62" :> "#99d8c9") @@ ("71" :> "#f0f0f0") @@
  ("72" :> "#fdd0a2") @@ ("73" :> "#bdbdbd") @@ ("74" :> "#969696") @@
  ("75" :> "#737373") @@ ("76" :> "#525252") @@ ("77" :> "#252525") @@
  ("81" :> "#efedf5") @@ ("82" :> "#dadaeb") @@ ("83" :> "#bcbddc") @@
  ("84" :> "#9e9ac8") @@ ("85" :> "#807dba") @@ ("91" :> "#ffffff") @@
  ("92" :> "#f7fbff")

(***************************************************************************)
(* fetchAll: the per-feature annotation loops                               *)
(***************************************************************************)
\* the default of a plant-color lookup miss
PlantDefaultMut(looked) == looked

PlantDefault(looked) == Nullish(looked, Str("#cccccc"))

\* plants.features.forEach(f => { ... })
AnnotatePlant(f) ==
  LET p == f.properties
      density == Nullish(Get(p, "density"), Str("O"))
      fill == PlantDefault(Lookup(plantColors, density))
      text == "Density: " \o JsString(density)
              \o "\nArea: " \o LocaleOrNA(Get(p, "st_areashape"))
              \o "\nPerimeter: " \o LocaleOrNA(Get(p, "st_perimetershape"))
  IN  [f EXCEPT !.properties =
         SetProp(SetProp(p, "fillColor", fill), "hoverText", Str(text))]

\* habitat.features.forEach(f => { ... })
AnnotateHabitat(f) ==
  LET p == f.properties
      isl == Nullish(Get(p, "island"), Str(""))
      fill == Nullish(Lookup(habitatColors, isl), Str("#a6cee3"))
      text == "Island: " \o JsString(isl)
              \o "\nCritical Habitat: "
              \o JsString(Nullish(Get(p, "critical_h"), Str("N/A")))
              \o "\nAcres: " \o LocaleOrNA(Get(p, "acres"))
              \o "\nArea: " \o LocaleOrNA(Get(p, "st_areashape"))
              \o "\nPerimeter: " \o LocaleOrNA(Get(p, "st_perimetershape"))
  IN  [f EXCEPT !.properties =
         SetProp(SetProp(p, "fillColor", fill), "hoverText", Str(text))]

\* LULC.features.forEach(f => { ... })
AnnotateLULC(f) ==
  LET p == f.properties
      landcover == Str(JsString(Nullish(Get(p, "landcover"), Str(""))))
      fill == Nullish(Lookup(lulcColors, landcover), Str("#cccccc"))
      label == Nullish(Lookup(lulcLabels, landcover), Str("Unknown"))
      text == "Land Cover Code: " \o JsString(landcover)
              \o "<br>" \o JsString(label)
              \o "<br>Area: " \o LocaleOrNA(Get(p, "st_areashape"))
              \o " sq units"
  IN  [f EXCEPT !.properties =
         SetProp(SetProp(p, "fillColor", fill), "hoverText", Str(text))]

\* stateParks.features.forEach(f => { ... })
AnnotateStateParks(f) ==
  LET p == f.properties
      text == "Park: " \o JsString(Nullish(Get(p, "name"), Str("N/A")))
              \o "<br>Type: " \o JsString(Nullish(Get(p, "type_defin"), Str("N/A")))
              \o "<br>Island: " \o JsString(Nullish(Get(p, "island"), Str("N/A")))
              \o "<br>Acres: " \o LocaleOrNA(Get(p, "gis_acre"))
  IN  [f EXCEPT !.properties =
         SetProp(SetProp(p, "fillColor", Str("#33a02c")), "hoverText", Str(text))]

\* a mutant of the hotel loop: nothing is attached
AnnotateHotelMut(f) == f

\* hotels.features.forEach(f => { ... }): a hover text, no fill color
AnnotateHotel(f) ==
  LET p == f.properties
      name == Nullish(Get(p, "hotel_name"),
                Nullish(Get(p, "name"), Nullish(Get(p, "NAME"), Str("Hotel"))))
  IN  [f EXCEPT !.properties =
         SetProp(p, "hoverText", Str("Hotel: " \o JsString(name)))]

\* the identifier of an urban feature, with the fallback of the pass
UrbanId(p, fallback) ==
  Nullish(Get(p, "GEOID20"), Nullish(Get(p, "geoid20"), Str(fallback)))

\* a mutant of the palette color: the index is off by one
PaletteColorMut(paletteIndex) ==
  urbanPalette[((paletteIndex + 1) % Len(urbanPalette)) + 1]

\* urbanPalette[paletteIndex % urbanPalette.length]
PaletteColor(paletteIndex) ==
  urbanPalette[(paletteIndex % Len(urbanPalette)) + 1]

RECURSIVE AssignPalette(_, _, _, _)
\* first pass over urban.features: geoidToColor and paletteIndex
AssignPalette(features, prefix, geoidToColor, paletteIndex) ==
  IF features = <<>>
    THEN [geoidToColor |-> geoidToColor, paletteIndex |-> paletteIndex]
    ELSE LET id == JsString(UrbanId(Head(features).properties,
                                    prefix \o ToString(paletteIndex)))
         IN  IF id \notin DOMAIN geoidToColor
               THEN AssignPalette(Tail(features), prefix,
                      geoidToColor @@ (id :> PaletteColor(paletteIndex)),
                      paletteIndex + 1)
               ELSE AssignPalette(Tail(features), prefix, geoidToColor, paletteIndex)

\* second pass over urban.features: hoverText and fillColor
AnnotateUrbanFeature(f, geoidToColor, paletteIndex) ==
  LET p == f.properties
      name == Nullish(Get(p, "NAMELSAD20"), Nullish(Get(p, "namelsad20"),
                Nullish(Get(p, "NAME20"), Nullish(Get(p, "name20"), Str("Urban Area")))))
      geoid == Nullish(Get(p, "GEOID20"), Nullish(Get(p, "geoid20"), Str("N/A")))
      pop == Nullish(Get(p, "POP"), Get(p, "pop"))
      dens == Nullish(Get(p, "POPDEN"), Get(p, "popden"))
      text == "Urban Area: " \o JsString(name)
              \o "<br>GEOID20: " \o JsString(geoid)
              \o (IF NotNull(pop) THEN "<br>Population: " \o NumberLocale(pop) ELSE "")
              \o (IF NotNull(dens)
                    THEN "<br>Density: " \o JsString(dens) \o " people/sq mi" ELSE "")
      id == UrbanId(p, "gid-" \o ToString(paletteIndex))
      fill == Nullish(Lookup(geoidToColor, id), Str(urbanPalette[1]))
  IN  [f EXCEPT !.properties =
         SetProp(SetProp(p, "hoverText", Str(text)), "fillColor", fill)]

\* both passes over urban.features
AnnotateUrban(features) ==
  LET a == AssignPalette(features, "gid-", <<>>, 0)
  IN  [i \in 1..Len(features) |->
         AnnotateUrbanFeature(features[i], a.geoidToColor, a.paletteIndex)]

(***************************************************************************)
(* Geometry                                                                 *)
(*                                                                         *)
(* The datasets are valid GeoJSON of the declared TypeScript types: a       *)
(* Polygon is a non-empty sequence of non-empty rings, a MultiPolygon a     *)
(* non-empty sequence of polygons, a coordinate a pair <<lon, lat>>.        *)
(***************************************************************************)
Polygon(rings) == [type |-> "Polygon", coordinates |-> rings]
MultiPolygon(polys) == [type |-> "MultiPolygon", coordinates |-> polys]
LineString(cs) == [type |-> "LineString", coordinates |-> cs]
MultiLineString(ls) == [type |-> "MultiLineString", coordinates |-> ls]
Point(c) == [type |-> "Point", coordinates |-> c]
Feature(g, p) == [geometry |-> g, properties |-> p]
FeatureCollection(fs) == [type |-> "FeatureCollection", features |-> fs]

\* the body of selectedFeatures.flatMap(f => ...): the coordinates of a geometry
GeomCoords(g) ==
  CASE g.type = "Polygon" -> Flat(g.coordinates)
    [] g.type = "MultiPolygon" -> Flat(Flat(g.coordinates))
    [] g.type = "LineString" -> g.coordinates
    [] g.type = "MultiLineString" -> Flat(g.coordinates)
    [] g.type = "Point" -> << g.coordinates >>
    [] OTHER -> <<>>

RECURSIVE FlatMapCoords(_)
\* selectedFeatures.flatMap(...)
FlatMapCoords(features) ==
  IF features = <<>> THEN <<>>
  ELSE GeomCoords(Head(features).geometry) \o FlatMapCoords(Tail(features))

\* a mutant of the ring a centroid is computed from: every ring of the shape
CentroidRingMut(g) == GeomCoords(g)

\* f.geometry.type === 'Polygon' ? coordinates[0] : coordinates[0][0]
CentroidRing(g) ==
  IF g.type = "Polygon" THEN g.coordinates[1] ELSE g.coordinates[1][1]

\* ring.reduce((s, c) => s + c[1], 0) / ring.length, and the same for c[0]
Centroid(f) ==
  LET ring == CentroidRing(f.geometry)
  IN  [lat |-> Div(SumAt(ring, 2), Len(ring)),
       lon |-> Div(SumAt(ring, 1), Len(ring))]

(***************************************************************************)
(* CombinedEverythingMap: the render effect                                 *)
(*                                                                         *)
(* s is the component state of the render: s.toggles (showPlants, ...),     *)
(* s.geojson (plantsGeojson, ...).                                          *)
(***************************************************************************)
\* showX && xGeojson
Shown(s, show, data) == s.toggles[show] /\ s.geojson[data] # Null

\* the features a dataset contributes when it is shown
FeaturesIf(s, show, data) ==
  IF Shown(s, show, data) THEN s.geojson[data].features ELSE <<>>

SelectedFeatures(s) ==
  FeaturesIf(s, "showPlants", "plantsGeojson")
  \o FeaturesIf(s, "showHabitat", "habitatGeojson")
  \o FeaturesIf(s, "showUrban", "urbanGeojson")
  \o FeaturesIf(s, "showRoads", "roadsGeojson")
  \o FeaturesIf(s, "showHotels", "hotelsGeojson")
  \o FeaturesIf(s, "showLULC", "LULCGeojson")
  \o FeaturesIf(s, "showStateParks", "stateParksGeojson")

\* let centerLat = 20.7; let centerLon = -156.0
DefaultCenter ==
  [lat |-> [k |-> "quot", num |-> 207, den |-> 10],
   lon |-> [k |-> "quot", num |-> -156, den |-> 1]]

\* a mutant of the center: the mean is taken without the length guard
CenterOfMut(allCoords) ==
  [lat |-> Div(SumAt(allCoords, 2), Len(allCoords)),
   lon |-> Div(SumAt(allCoords, 1), Len(allCoords))]

\* if (allCoords.length > 0) { centerLat = ...; centerLon = ... }
CenterOf(allCoords) ==
  IF Len(allCoords) > 0
    THEN [lat |-> Div(SumAt(allCoords, 2), Len(allCoords)),
          lon |-> Div(SumAt(allCoords, 1), Len(allCoords))]
    ELSE DefaultCenter

\* one fill layer per feature (opacity in percent)
FillLayers(features, opacity) ==
  [i \in 1..Len(features) |->
     [sourcetype |-> "geojson", source |-> << features[i] >>, type |-> "fill",
      color |-> Get(features[i].properties, "fillColor"),
      opacity |-> opacity, below |-> "water"]]

RoadsLayer(s) ==
  IF Shown(s, "showRoads", "roadsGeojson")
    THEN << [sourcetype |-> "geojson", source |-> s.geojson.roadsGeojson.features,
             type |-> "line", color |-> Str("#000000"), width |-> 1] >>
    ELSE <<>>

CombinedOutlineFeatures(s) ==
  FeaturesIf(s, "showPlants", "plantsGeojson")
  \o FeaturesIf(s, "showHabitat", "habitatGeojson")
  \o FeaturesIf(s, "showUrban", "urbanGeojson")
  \o FeaturesIf(s, "showLULC", "LULCGeojson")
  \o FeaturesIf(s, "showStateParks", "stateParksGeojson")

OutlineLayer(s) ==
  IF Len(CombinedOutlineFeatures(s)) > 0
    THEN << [sourcetype |-> "geojson", source |-> CombinedOutlineFeatures(s),
             type |-> "line", color |-> Str("black"), width |-> 1] >>
    ELSE <<>>

\* a mutant of the layer list: the outline is pushed first
MapboxLayersMut(s) ==
  OutlineLayer(s)
  \o FillLayers(FeaturesIf(s, "showPlants", "plantsGeojson"), 55)
  \o FillLayers(FeaturesIf(s, "showHabitat", "habitatGeojson"), 55)
  \o FillLayers(FeaturesIf(s, "showUrban", "urbanGeojson"), 45)
  \o RoadsLayer(s)
  \o FillLayers(FeaturesIf(s, "showLULC", "LULCGeojson"), 50)
  \o FillLayers(FeaturesIf(s, "showStateParks", "stateParksGeojson"), 60)

MapboxLayers(s) ==
  FillLayers(FeaturesIf(s, "showPlants", "plantsGeojson"), 55)
  \o FillLayers(FeaturesIf(s, "showHabitat", "habitatGeojson"), 55)
  \o FillLayers(FeaturesIf(s, "showUrban", "urbanGeojson"), 45)
  \o RoadsLayer(s)
  \o FillLayers(FeaturesIf(s, "showLULC", "LULCGeojson"), 50)
  \o FillLayers(FeaturesIf(s, "showStateParks", "stateParksGeojson"), 60)
  \o OutlineLayer(s)

dummyTrace ==
  [type |-> "scattermapbox", lat |-> <<>>, lon |-> <<>>, mode |-> "markers",
   size |-> 1, color |-> "rgba(0,0,0,0)"]

\* the three arrays a forEach over features pushes to
CentroidLat(features) == [i \in 1..Len(features) |-> Centroid(features[i]).lat]
CentroidLon(features) == [i \in 1..Len(features) |-> Centroid(features[i]).lon]
HoverTexts(features) ==
  [i \in 1..Len(features) |-> Get(features[i].properties, "hoverText")]

UrbanTrace(s) ==
  IF Shown(s, "showUrban", "urbanGeojson")
    THEN LET fs == s.geojson.urbanGeojson.features
         IN  << [type |-> "scattermapbox", lat |-> CentroidLat(fs),
                 lon |-> CentroidLon(fs), mode |-> "markers", size |-> 18,
                 color |-> "rgba(0,0,0,0)", text |-> HoverTexts(fs),
                 name |-> "Urban Areas"] >>
    ELSE <<>>

HotelsTrace(s) ==
  IF Shown(s, "showHotels", "hotelsGeojson")
    THEN LET fs == s.geojson.hotelsGeojson.features
         IN  << [type |-> "scattermapbox",
                 lat |-> [i \in 1..Len(fs) |-> fs[i].geometry.coordinates[2]],
                 lon |-> [i \in 1..Len(fs) |-> fs[i].geometry.coordinates[1]],
                 mode |-> "markers", size |-> 8, color |-> "red",
                 text |-> HoverTexts(fs), name |-> "Hotels"] >>
    ELSE <<>>

\* a mutant of the shared trace: the second dataset is pushed first
SharedTraceMut(s, show1, data1, show2, data2) ==
  IF Shown(s, show1, data1) \/ Shown(s, show2, data2)
    THEN LET fs == FeaturesIf(s, show2, data2) \o FeaturesIf(s, show1, data1)
         IN  << [type |-> "scattermapbox", lat |-> CentroidLat(fs),
                 lon |-> CentroidLon(fs), mode |-> "markers", size |-> 1,
                 color |-> "rgba(0,0,0,0)", text |-> HoverTexts(fs)] >>
    ELSE <<>>

\* the shared centroid trace of two datasets
SharedTrace(s, show1, data1, show2, data2) ==
  IF Shown(s, show1, data1) \/ Shown(s, show2, data2)
    THEN LET fs == FeaturesIf(s, show1, data1) \o FeaturesIf(s, show2, data2)
         IN  << [type |-> "scattermapbox", lat |-> CentroidLat(fs),
                 lon |-> CentroidLon(fs), mode |-> "markers", size |-> 1,
                 color |-> "rgba(0,0,0,0)", text |-> HoverTexts(fs)] >>
    ELSE <<>>

\* a mutant of the trace list: plants and habitat get a trace each
TracesMut(s) ==
  << dummyTrace >>
  \o UrbanTrace(s)
  \o HotelsTrace(s)
  \o SharedTrace(s, "showPlants", "plantsGeojson", "showPlants", "plantsGeojson")
  \o SharedTrace(s, "showHabitat", "habitatGeojson", "showHabitat", "habitatGeojson")
  \o SharedTrace(s, "showLULC", "LULCGeojson", "showStateParks", "stateParksGeojson")

Traces(s) ==
  << dummyTrace >>
  \o UrbanTrace(s)
  \o HotelsTrace(s)
  \o SharedTrace(s, "showPlants", "plantsGeojson", "showHabitat", "habitatGeojson")
  \o SharedTrace(s, "showLULC", "LULCGeojson", "showStateParks", "stateParksGeojson")

\* the arguments of Plotly.react(divRef.current, traces, layout, ...)
RenderEffect(s) ==
  [traces |-> Traces(s),
   layout |-> [style |-> "carto-positron",
               center |-> CenterOf(FlatMapCoords(SelectedFeatures(s))),
               layers |-> MapboxLayers(s)]]

\* the categories of the legend, in the order of legendGroups
legendGroups ==
  << "Urban or Built-up Land", "Agricultural Land", "Rangeland", "Forest Land",
     "Water", "Wetland", "Barren Land", "Tundra", "Perennial Snow" >>

\* a mutant of the legend: it also waits for the LULC dataset
LULCLegendMut(s) ==
  IF ~ Shown(s, "showLULC", "LULCGeojson")
    THEN Null
    ELSE [title |-> "Land Use/Cover Legend", groups |-> legendGroups]

\* const LULCLegend = () => { if (!showLULC) return null; ... }
LULCLegend(s) ==
  IF ~ s.toggles["showLULC"]
    THEN Null
    ELSE [title |-> "Land Use/Cover Legend", groups |-> legendGroups]

\* what the component returns: the controls, <LULCLegend /> and the map
\* container, from the state of the current render
Jsx(s) ==
  [controls |-> s.groups,
   legend |-> LULCLegend(s),
   map |-> "div"]

(***************************************************************************)
(* The static files                                                         *)
(***************************************************************************)
\* the datasets, in the order fetchAll fetches and stores them
Datasets == << "plants", "habitat", "urban", "roads", "hotels", "LULC", "stateParks" >>
DatasetSet == {Datasets[i] : i \in 1..Len(Datasets)}

\* the state variable each dataset is stored in
GeojsonOf ==
  [plants |-> "plantsGeojson", habitat |-> "habitatGeojson",
   urban |-> "urbanGeojson", roads |-> "roadsGeojson",
   hotels |-> "hotelsGeojson", LULC |-> "LULCGeojson",
   stateParks |-> "stateParksGeojson"]

\* the toggle of each dataset
ShowOf ==
  [plants |-> "showPlants", habitat |-> "showHabitat", urban |-> "showUrban",
   roads |-> "showRoads", hotels |-> "showHotels", LULC |-> "showLULC",
   stateParks |-> "showStateParks"]

Ring1 == << <<0, 0>>, <<4, 0>>, <<4, 4>>, <<0, 0>> >>
Ring2 == << <<10, 10>>, <<12, 10>>, <<12, 14>>, <<10, 14>>, <<10, 10>> >>
Hole1 == << <<1, 1>>, <<3, 1>>, <<3, 2>>, <<1, 1>> >>
Ring3 == << <<-6, 2>>, <<-2, 2>>, <<-2, 5>>, <<-6, 2>> >>

\* the contents the static files may have: the world the page is served in
Worlds == {"typical", "edge", "empty"}

Files(w) ==
  CASE w = "typical" ->
       [plants |-> FeatureCollection(<<
          Feature(Polygon(<< Ring1 >>),
                  [objectid |-> Num(1), density |-> Str("H"), st_areashape |-> Num(12)]),
          Feature(MultiPolygon(<< << Ring1 >>, << Ring2 >> >>),
                  [objectid |-> Num(2)]) >>),
        habitat |-> FeatureCollection(<<
          Feature(Polygon(<< Ring2, Hole1 >>),
                  [objectid |-> Num(3), island |-> Str("Maui"), acres |-> Num(7)]) >>),
        urban |-> FeatureCollection(<<
          Feature(Polygon(<< Ring3 >>),
                  [objectid |-> Num(4), GEOID20 |-> Str("15001"),
                   NAME20 |-> Str("Hilo"), POP |-> Num(45)]),
          Feature(MultiPolygon(<< << Ring3, Hole1 >>, << Ring1 >> >>),
                  [objectid |-> Num(5), geoid20 |-> Str("15003")]),
          Feature(Polygon(<< Ring1 >>),
                  [objectid |-> Num(6), GEOID20 |-> Str("15001")]) >>),
        roads |-> FeatureCollection(<<
          Feature(LineString(<< <<0, 1>>, <<5, 1>> >>), [objectid |-> Num(7)]),
          Feature(MultiLineString(<< << <<0, 2>>, <<1, 3>> >>, << <<7, 7>> >> >>),
                  [objectid |-> Num(8)]) >>),
        hotels |-> FeatureCollection(<<
          Feature(Point(<<3, 9>>), [objectid |-> Num(9), name |-> Str("Hale")]) >>),
        LULC |-> FeatureCollection(<<
          Feature(Polygon(<< Ring2 >>), [objectid |-> Num(10), landcover |-> Num(11)]) >>),
        stateParks |-> FeatureCollection(<<
          Feature(Polygon(<< Ring3 >>), [objectid |-> Num(11), name |-> Str("Akaka")]) >>)]
    [] w = "edge" ->
       [plants |-> FeatureCollection(<<
          Feature(Polygon(<< Ring2, Hole1 >>), [objectid |-> Num(1), density |-> Str("X")]),
          Feature(Polygon(<< Ring3 >>), [objectid |-> Num(2), density |-> Null]) >>),
        habitat |-> FeatureCollection(<<
          Feature(MultiPolygon(<< << Ring1 >>, << Ring3 >> >>), [objectid |-> Num(3)]),
          Feature(Polygon(<< Ring1 >>), [objectid |-> Num(4), island |-> Str("Niihau")]) >>),
        urban |-> FeatureCollection(<<
          Feature(Polygon(<< Ring1 >>), [objectid |-> Num(5)]),
          Feature(Polygon(<< Ring2 >>), [objectid |-> Num(6), NAMELSAD20 |-> Str("Kona")]) >>),
        roads |-> FeatureCollection(<<>>),
        hotels |-> FeatureCollection(<<
          Feature(Point(<<-1, 2>>), [objectid |-> Num(7)]),
          Feature(Point(<<5, 6>>), [objectid |-> Num(8), hotel_name |-> Str("Moana")]) >>),
        LULC |-> FeatureCollection(<<
          Feature(Polygon(<< Ring1 >>), [objectid |-> Num(9), landcover |-> Str("99")]),
          Feature(MultiPolygon(<< << Ring2 >>, << Ring1 >> >>), [objectid |-> Num(10)]) >>),
        stateParks |-> FeatureCollection(<<>>)]
    [] OTHER ->
       [d \in DatasetSet |-> FeatureCollection(<<>>)]

\* "Attach visualization extras": the files as fetchAll stores them
Annotated(files) ==
  LET plants == files.plants.features
      habitat == files.habitat.features
      hotels == files.hotels.features
      LULC == files.LULC.features
      stateParks == files.stateParks.features
  IN  [plantsGeojson |->
         FeatureCollection([i \in 1..Len(plants) |-> AnnotatePlant(plants[i])]),
       habitatGeojson |->
         FeatureCollection([i \in 1..Len(habitat) |-> AnnotateHabitat(habitat[i])]),
       urbanGeojson |-> FeatureCollection(AnnotateUrban(files.urban.features)),
       roadsGeojson |-> files.roads,
       hotelsGeojson |->
         FeatureCollection([i \in 1..Len(hotels) |-> AnnotateHotel(hotels[i])]),
       LULCGeojson |->
         FeatureCollection([i \in 1..Len(LULC) |-> AnnotateLULC(LULC[i])]),
       stateParksGeojson |->
         FeatureCollection([i \in 1..Len(stateParks) |->
                              AnnotateStateParks(stateParks[i])])]

(***************************************************************************)
(* CombinedEverythingMap: state                                             *)
(***************************************************************************)
VARIABLES
  page,          \* the map component the page has mounted, "none" before
  toggles,       \* showPlants, ..., showStateParks
  groups,        \* showEnvironmentalGroup, showHumanGroup
  geojson,       \* plantsGeojson, ..., stateParksGeojson: Null or a collection
  cem_pc,        \* where fetchAll is
  cem_resp,      \* the seven fetch promises
  cem_json,      \* the seven json() promises
  cem_cancelled, \* the flag of the fetch effect
  cem_divRef,    \* divRef.current is the map container
  cem_fetches,   \* how many times each file was requested
  cem_console,   \* what console.error was called with
  cem_plot,      \* the arguments of the last Plotly.react, Null before the first
  cem_view,      \* the center and zoom the map shows
  cem_early      \* user events handled while the load is pending

VARIABLES
  urm_pc,        \* UrbanRoadMap: where render() is
  urm_resp,      \* UrbanRoadMap: the three fetch promises
  urm_cancelled, \* UrbanRoadMap: the flag of the effect
  urm_divRef,    \* UrbanRoadMap: divRef.current is the map container
  urm_container, \* UrbanRoadMap: what the map container holds
  urm_console    \* UrbanRoadMap: what console.error was called with

VARIABLES
  cm_toggles,    \* CombinedMap: showPlants, showHabitat
  cm_showEnvironmentalData,
  cm_geojson,    \* CombinedMap: plantsGeojson, habitatGeojson
  cm_pc,         \* CombinedMap: where fetchData is
  cm_resp,       \* CombinedMap: the two fetch promises
  cm_plot,       \* CombinedMap: the arguments of the last Plotly.newPlot
  cm_console     \* CombinedMap: what console.error was called with

VARIABLES
  home_showPlants,          \* HomePage: the sidebar checkboxes
  home_showCriticalHabitat,
  pm_pc,         \* PlotlyMap: where render() is
  pm_cancelled,  \* PlotlyMap: the flag of the effect
  pm_divRef,     \* PlotlyMap: divRef.current is the map container
  pm_container   \* PlotlyMap: what the map container holds

VARIABLES
  ann_in,        \* a feature as a static file holds it
  ann_out        \* the feature after an annotation loop, Null before

urmVars ==
  << urm_pc, urm_resp, urm_cancelled, urm_divRef, urm_container, urm_console >>

cmVars ==
  << cm_toggles, cm_showEnvironmentalData, cm_geojson, cm_pc, cm_resp, cm_plot,
     cm_console >>

homeVars ==
  << home_showPlants, home_showCriticalHabitat, pm_pc, pm_cancelled, pm_divRef,
     pm_container >>

annVars == << ann_in, ann_out >>

cemVars ==
  << toggles, groups, geojson, cem_pc, cem_resp, cem_json, cem_cancelled,
     cem_divRef, cem_fetches, cem_console, cem_plot, cem_view, cem_early >>

\* the user events the model follows while the load is pending
MaxEarly == 2

\* the Quick Zoom buttons the model presses
MaxZoomButtons == 1

ToggleNames == {ShowOf[d] : d \in DatasetSet}
GeojsonNames == {GeojsonOf[d] : d \in DatasetSet}
GroupNames == {"showEnvironmentalGroup", "showHumanGroup"}

\* the collapsible group a checkbox is rendered in
GroupOf ==
  [showPlants |-> "showEnvironmentalGroup", showHabitat |-> "showEnvironmentalGroup",
   showStateParks |-> "showEnvironmentalGroup", showUrban |-> "showHumanGroup",
   showRoads |-> "showHumanGroup", showHotels |-> "showHumanGroup",
   showLULC |-> "showHumanGroup"]

\* a mutant of the render effect's dependency array: showRoads is missing
RenderEffectDepsMut == (ToggleNames \ {"showRoads"}) \cup GeojsonNames

\* the dependency array of the render effect
RenderEffectDeps == ToggleNames \cup GeojsonNames

\* a mutant of the fetch effect's dependency array
FetchEffectDepsMut == {"showPlants"}

\* the dependency array of the fetch effect: []
FetchEffectDeps == {}

Quot(n, d) == [k |-> "quot", num |-> n, den |-> d]

\* zoomToIsland: centers
centers ==
  [Oahu |-> [lat |-> Quot(214389, 10000), lon |-> Quot(-1580001, 10000), zoom |-> Quot(95, 10)],
   Maui |-> [lat |-> Quot(207984, 10000), lon |-> Quot(-1563319, 10000), zoom |-> Quot(95, 10)],
   Hawaii |-> [lat |-> Quot(195429, 10000), lon |-> Quot(-1556659, 10000), zoom |-> Quot(85, 10)],
   Kauai |-> [lat |-> Quot(220964, 10000), lon |-> Quot(-1595261, 10000), zoom |-> Quot(95, 10)],
   Molokai |-> [lat |-> Quot(211444, 10000), lon |-> Quot(-1570226, 10000), zoom |-> Quot(10, 1)],
   Lanai |-> [lat |-> Quot(208283, 10000), lon |-> Quot(-1569197, 10000), zoom |-> Quot(105, 10)],
   Kahoolawe |-> [lat |-> Quot(205497, 10000), lon |-> Quot(-1566034, 10000), zoom |-> Quot(11, 1)],
   Niihau |-> [lat |-> Quot(219024, 10000), lon |-> Quot(-1601669, 10000), zoom |-> Quot(105, 10)],
   All |-> [lat |-> Quot(207, 10), lon |-> Quot(-157, 1), zoom |-> Quot(7, 1)]]

\* the Quick Zoom buttons
ZoomButtons ==
  << "Oahu", "Maui", "Hawaii", "Kauai", "Molokai", "Lanai", "Kahoolawe", "Niihau", "All" >>

\* a mutant of Promise.all: it fulfils with the first response
PromiseAllMut(r) == \E e \in DOMAIN r : r[e] # "pending"

\* await Promise.all([...]) goes on when none of the promises is pending
PromiseAll(r) == \A e \in DOMAIN r : r[e] # "pending"

AllPending == [d \in DatasetSet |-> "pending"]
Consumed == [d \in DatasetSet |-> "consumed"]

\* a mutant of the initial toggles: the plant layer starts on
InitialTogglesMut == [n \in ToggleNames |-> n = "showPlants"]

\* useState(false) for the seven layer toggles
InitialToggles == [n \in ToggleNames |-> FALSE]

\* the state after the first render of CombinedEverythingMap
InitCEM ==
  /\ toggles = InitialToggles
  /\ groups = [n \in GroupNames |-> FALSE]
  /\ geojson = [n \in GeojsonNames |-> Null]
  /\ cem_pc = "init"
  /\ cem_resp = Consumed
  /\ cem_json = Consumed
  /\ cem_cancelled = FALSE
  /\ cem_divRef = TRUE
  /\ cem_fetches = [d \in DatasetSet |-> 0]
  /\ cem_console = {}
  /\ cem_plot = Null
  /\ cem_view = Null
  /\ cem_early = 0

(***************************************************************************)
(* CombinedEverythingMap: React's commit after a state change               *)
(*                                                                         *)
(* An effect runs again when one of its dependencies changed. `changed` is *)
(* the set of state names the handler wrote; t2 and g2 are the new toggles  *)
(* and datasets; pc2, resp2 and json2 are where fetchAll is after the       *)
(* handler. State updates of one handler are batched into one commit.       *)
(***************************************************************************)
\* fetchAll up to its first await: the seven fetch calls
IssueFetches ==
  /\ cem_fetches' = [d \in DatasetSet |-> cem_fetches[d] + 1]
  /\ cem_resp' = AllPending
  /\ cem_json' = AllPending
  /\ cem_cancelled' = FALSE
  /\ cem_pc' = "awaitResponses"

\* the fetch effect after a commit
FetchEffectAfter(changed, pc2, resp2, json2) ==
  IF changed \cap FetchEffectDeps # {}
    THEN IssueFetches
    ELSE /\ cem_pc' = pc2
         /\ cem_resp' = resp2
         /\ cem_json' = json2
         /\ UNCHANGED << cem_fetches, cem_cancelled >>

\* what the map shows after Plotly.react(..., layout): zoom: 8.5
ViewOf(plot) ==
  [lat |-> plot.layout.center.lat, lon |-> plot.layout.center.lon,
   zoom |-> Quot(85, 10)]

\* the render effect after a commit: if (!divRef.current) return; ... Plotly.react
RenderEffectAfter(changed, t2, g2) ==
  IF changed \cap RenderEffectDeps # {} /\ cem_divRef
    THEN /\ cem_plot' = RenderEffect([toggles |-> t2, geojson |-> g2])
         /\ cem_view' = ViewOf(RenderEffect([toggles |-> t2, geojson |-> g2]))
    ELSE UNCHANGED << cem_plot, cem_view >>

LoadPending == cem_pc \in {"awaitResponses", "awaitJson"}

\* a user event is handled: the component is mounted and its effects have run
UserEvent ==
  /\ UNCHANGED << page, urmVars, cmVars, homeVars, annVars >>
  /\ cem_pc # "init"
  /\ cem_divRef
  /\ LoadPending => cem_early < MaxEarly
  /\ cem_early' = IF LoadPending THEN cem_early + 1 ELSE cem_early

(***************************************************************************)
(* CombinedEverythingMap: operations                                        *)
(***************************************************************************)
\* the first commit: the fetch effect, then the render effect
Mount ==
  /\ page = "none"
  /\ page' = "CombinedEverythingMap"
  /\ UNCHANGED << urmVars, cmVars, homeVars, annVars >>
  /\ cem_pc = "init"
  /\ IssueFetches
  /\ cem_plot' = RenderEffect([toggles |-> toggles, geojson |-> geojson])
  /\ cem_view' = ViewOf(RenderEffect([toggles |-> toggles, geojson |-> geojson]))
  /\ UNCHANGED << toggles, groups, geojson, cem_divRef, cem_console, cem_early >>

\* onChange={e => setShowX(e.target.checked)} of a layer checkbox, which is
\* rendered while its group is expanded
ToggleLayer(name) ==
  /\ UserEvent
  /\ groups[GroupOf[name]]
  /\ toggles' = [toggles EXCEPT ![name] = ~ toggles[name]]
  /\ FetchEffectAfter({name}, cem_pc, cem_resp, cem_json)
  /\ RenderEffectAfter({name}, toggles', geojson)
  /\ UNCHANGED << groups, geojson, cem_divRef, cem_console >>

\* onClick={() => setShowXGroup(!showXGroup)}
ToggleGroup(name) ==
  /\ UserEvent
  /\ groups' = [groups EXCEPT ![name] = ~ groups[name]]
  /\ FetchEffectAfter({name}, cem_pc, cem_resp, cem_json)
  /\ RenderEffectAfter({name}, toggles, geojson)
  /\ UNCHANGED << toggles, geojson, cem_divRef, cem_console >>

\* a mutant of zoomToIsland: it also drops the stored road dataset
ZoomToIslandMut(island) ==
  /\ UserEvent
  /\ island \in DOMAIN centers
  /\ cem_view' = centers[island]
  /\ geojson' = [geojson EXCEPT !["roadsGeojson"] = Null]
  /\ UNCHANGED << toggles, groups, cem_pc, cem_resp, cem_json,
                  cem_cancelled, cem_divRef, cem_fetches, cem_console, cem_plot >>

\* zoomToIsland(island): Plotly.relayout, no state is written
ZoomToIsland(island) ==
  /\ UserEvent
  /\ island \in DOMAIN centers
  /\ cem_view' = centers[island]
  /\ UNCHANGED << toggles, groups, geojson, cem_pc, cem_resp, cem_json,
                  cem_cancelled, cem_divRef, cem_fetches, cem_console, cem_plot >>

\* the cleanup of the fetch effect, when the component is unmounted
Unmount ==
  /\ UNCHANGED << page, urmVars, cmVars, homeVars, annVars >>
  /\ cem_pc # "init"
  /\ cem_divRef
  /\ cem_cancelled' = TRUE
  /\ cem_divRef' = FALSE
  /\ UNCHANGED << toggles, groups, geojson, cem_pc, cem_resp, cem_json,
                  cem_fetches, cem_console, cem_plot, cem_view, cem_early >>

\* a mutant of the ok test: stateParksResp.ok is not tested
AllOkMut(r) == \A e \in DatasetSet \ {"stateParks"} : r[e] = "ok"

\* !(!plantsResp.ok || !habitatResp.ok || ... || !stateParksResp.ok)
AllOk(r) == \A e \in DatasetSet : r[e] = "ok"

\* a mutant of the cancellation check: fetchAll goes on after the cleanup
cancelledMut == FALSE

\* if (cancelled) return;  the flag the cleanup of the fetch effect sets
cancelled == cem_cancelled

\* fetchAll returns or is caught: its locals are gone
Finish(pc2, logged) ==
  /\ cem_pc' = pc2
  /\ cem_resp' = Consumed
  /\ cem_json' = Consumed
  /\ cem_console' = cem_console \cup logged
  /\ cem_early' = 0
  /\ UNCHANGED << toggles, groups, geojson, cem_cancelled, cem_divRef,
                  cem_fetches, cem_plot, cem_view >>

\* a fetch promise fulfils with a response; with the last one fetchAll goes
\* on: if (cancelled) return; if (!plantsResp.ok || ...) { console.error; return }
\* and the seven json() calls
RespArrive(d, ok) ==
  /\ UNCHANGED << page, urmVars, cmVars, homeVars, annVars >>
  /\ cem_pc = "awaitResponses"
  /\ cem_resp[d] = "pending"
  /\ LET r2 == [cem_resp EXCEPT ![d] = IF ok THEN "ok" ELSE "notok"]
     IN  IF ~ PromiseAll(r2)
           THEN /\ cem_resp' = r2
                /\ UNCHANGED << toggles, groups, geojson, cem_pc, cem_json,
                                cem_cancelled, cem_divRef, cem_fetches,
                                cem_console, cem_plot, cem_view, cem_early >>
           ELSE IF cancelled
             THEN Finish("cancelled", {})
             ELSE IF ~ AllOk(r2)
               THEN Finish("failed", {"One or more dataset fetches failed"})
               ELSE /\ cem_pc' = "awaitJson"
                    /\ cem_resp' = r2
                    /\ UNCHANGED << toggles, groups, geojson, cem_json,
                                    cem_cancelled, cem_divRef, cem_fetches,
                                    cem_console, cem_plot, cem_view, cem_early >>

\* a fetch promise rejects: Promise.all rejects, catch (err) { console.error }
RespReject(d) ==
  /\ UNCHANGED << page, urmVars, cmVars, homeVars, annVars >>
  /\ cem_pc = "awaitResponses"
  /\ cem_resp[d] = "pending"
  /\ Finish("failed", {"Error fetching datasets"})

\* Save states: the seven setXGeojson calls and the commit that follows
SaveStates(files) ==
  /\ geojson' = Annotated(files)
  /\ FetchEffectAfter(GeojsonNames, "stored", cem_resp,
                      [d \in DatasetSet |-> "parsed"])
  /\ RenderEffectAfter(GeojsonNames, toggles, geojson')
  /\ cem_early' = 0
  /\ UNCHANGED << toggles, groups, cem_divRef, cem_console >>

\* a json() promise fulfils; with the last one fetchAll goes on:
\* if (cancelled) return; the annotation loops; Save states
JsonArrive(d) ==
  /\ UNCHANGED << page, urmVars, cmVars, homeVars, annVars >>
  /\ cem_pc = "awaitJson"
  /\ cem_json[d] = "pending"
  /\ LET j2 == [cem_json EXCEPT ![d] = "parsed"]
     IN  IF ~ PromiseAll(j2)
           THEN /\ cem_json' = j2
                /\ UNCHANGED << toggles, groups, geojson, cem_pc, cem_resp,
                                cem_cancelled, cem_divRef, cem_fetches,
                                cem_console, cem_plot, cem_view, cem_early >>
           ELSE IF cancelled
             THEN Finish("cancelled", {})
             ELSE \E w \in Worlds : SaveStates(Files(w))

\* a json() promise rejects: catch (err) { console.error }
JsonReject(d) ==
  /\ UNCHANGED << page, urmVars, cmVars, homeVars, annVars >>
  /\ cem_pc = "awaitJson"
  /\ cem_json[d] = "pending"
  /\ Finish("failed", {"Error fetching datasets"})

NextCEM ==
  \/ Mount
  \/ \E name \in ToggleNames : ToggleLayer(name)
  \/ \E name \in GroupNames : ToggleGroup(name)
  \/ \E i \in 1..MaxZoomButtons : ZoomToIsland(ZoomButtons[i])
  \/ Unmount
  \/ \E d \in DatasetSet, ok \in BOOLEAN : RespArrive(d, ok)
  \/ \E d \in DatasetSet : RespReject(d)
  \/ \E d \in DatasetSet : JsonArrive(d)
  \/ \E d \in DatasetSet : JsonReject(d)

(***************************************************************************)
(* UrbanRoadMap (src/app/page.tsx)                                          *)
(***************************************************************************)
\* a is falsy
Falsy(a) == a \in {Undefined, Null, Str(""), Num(0), NaN}

\* a || b
Or(a, b) == IF Falsy(a) THEN b ELSE a

UrmDatasets == {"urban", "roads", "hotels"}

Empty == [kind |-> "empty"]
\* a mutant of the error display: nothing is written
HtmlMut(text) == [kind |-> "empty"]

\* divRef.current.innerHTML = text
Html(text) == [kind |-> "html", html |-> text]

\* allCoords.reduce(...) / (allCoords.length || 1)
UrmCenter(allCoords) ==
  [lat |-> Div(SumAt(allCoords, 2), IF Len(allCoords) = 0 THEN 1 ELSE Len(allCoords)),
   lon |-> Div(SumAt(allCoords, 1), IF Len(allCoords) = 0 THEN 1 ELSE Len(allCoords))]

\* urbanHoverText.push(...)
UrmUrbanHoverText(f) ==
  LET p == f.properties
      name == Or(Get(p, "NAMELSAD20"), Or(Get(p, "namelsad20"),
                Or(Get(p, "NAME20"), Or(Get(p, "name20"), Str("Urban Area")))))
      geoid == Nullish(Get(p, "GEOID20"), Nullish(Get(p, "geoid20"), Str("N/A")))
      pop == Nullish(Get(p, "POP"), Nullish(Get(p, "pop"), Null))
      density == Nullish(Get(p, "POPDEN"), Nullish(Get(p, "popden"), Null))
  IN  Str("Urban Area: " \o JsString(name)
          \o "<br>GEOID20: " \o JsString(geoid)
          \o (IF NotNull(pop) THEN "<br>Population: " \o JsString(pop) ELSE "")
          \o (IF NotNull(density)
                THEN "<br>Density: " \o JsString(density) \o " people/sq mi" ELSE ""))

\* hotelHoverText.push(`Hotel: ${name}`)
UrmHotelHoverText(f) ==
  LET p == f.properties
  IN  Str("Hotel: " \o JsString(Or(Get(p, "hotel_name"),
                                  Or(Get(p, "name"), Or(Get(p, "NAME"), Str("Hotel"))))))

\* urbanFillLayers
UrmFillLayers(features, geoidToColor) ==
  [i \in 1..Len(features) |->
     [sourcetype |-> "geojson", source |-> << features[i] >>, type |-> "fill",
      color |-> Nullish(Lookup(geoidToColor, UrbanId(features[i].properties, "unknown")),
                        Str("rgba(200,200,200,0.45)")),
      below |-> "water"]]

\* the arguments of Plotly.newPlot(divRef.current, [urbanHoverLayer, hotelsLayer], layout)
UrmPlot(files) ==
  LET urban == files.urban.features
      hotels == files.hotels.features
      a == AssignPalette(urban, "id-", <<>>, 0)
      urbanHoverLayer ==
        [type |-> "scattermapbox", lat |-> CentroidLat(urban),
         lon |-> CentroidLon(urban), mode |-> "markers", size |-> 18,
         color |-> "rgba(0,0,0,0)",
         text |-> [i \in 1..Len(urban) |-> UrmUrbanHoverText(urban[i])],
         name |-> "Urban Areas"]
      hotelsLayer ==
        [type |-> "scattermapbox",
         lat |-> [i \in 1..Len(hotels) |-> hotels[i].geometry.coordinates[2]],
         lon |-> [i \in 1..Len(hotels) |-> hotels[i].geometry.coordinates[1]],
         mode |-> "markers", size |-> 8, color |-> "red",
         text |-> [i \in 1..Len(hotels) |-> UrmHotelHoverText(hotels[i])],
         name |-> "Hotels"]
      roadsLayer ==
        [sourcetype |-> "geojson", source |-> files.roads.features, type |-> "line",
         color |-> Str("#000000"), width |-> 1]
  IN  [kind |-> "plot",
       traces |-> << urbanHoverLayer, hotelsLayer >>,
       layout |-> [style |-> "open-street-map",
                   center |-> UrmCenter(FlatMapCoords(urban)),
                   layers |-> UrmFillLayers(urban, a.geoidToColor) \o << roadsLayer >>]]

InitURM ==
  /\ urm_pc = "init"
  /\ urm_resp = [d \in UrmDatasets |-> "consumed"]
  /\ urm_cancelled = FALSE
  /\ urm_divRef = TRUE
  /\ urm_container = Empty
  /\ urm_console = {}

\* the effect: if (!divRef.current) return; render() up to its first await
UrmMount ==
  /\ page = "none"
  /\ page' = "UrbanRoadMap"
  /\ urm_pc = "init"
  /\ urm_divRef
  /\ urm_pc' = "awaitResponses"
  /\ urm_resp' = [d \in UrmDatasets |-> "pending"]
  /\ urm_cancelled' = FALSE
  /\ UNCHANGED << urm_divRef, urm_container, urm_console >>
  /\ UNCHANGED << cemVars, cmVars, homeVars, annVars >>

\* catch (err) { console.error(err); if (divRef.current) innerHTML = `Error: ...` }
UrmCatch(err) ==
  /\ urm_pc' = "failed"
  /\ urm_resp' = [d \in UrmDatasets |-> "consumed"]
  /\ urm_console' = urm_console \cup {err}
  /\ urm_container' = IF urm_divRef THEN Html("Error: " \o err) ELSE urm_container
  /\ UNCHANGED << urm_cancelled, urm_divRef >>

\* a fetch promise fulfils; with the last one render() goes on: the ok check
\* (divRef.current!.innerHTML = ... throws when the ref is null) and
\* await urbanResp.json()
UrmRespArrive(d, ok) ==
  /\ UNCHANGED << page, cemVars, cmVars, homeVars, annVars >>
  /\ urm_pc = "awaitResponses"
  /\ urm_resp[d] = "pending"
  /\ LET r2 == [urm_resp EXCEPT ![d] = IF ok THEN "ok" ELSE "notok"]
     IN  IF ~ PromiseAll(r2)
           THEN /\ urm_resp' = r2
                /\ UNCHANGED << urm_pc, urm_cancelled, urm_divRef, urm_container,
                                urm_console >>
           ELSE IF \E e \in UrmDatasets : r2[e] = "notok"
             THEN IF urm_divRef
               THEN /\ urm_pc' = "failed"
                    /\ urm_resp' = [e \in UrmDatasets |-> "consumed"]
                    /\ urm_container' = Html("Failed to load one or more GeoJSON files.")
                    /\ UNCHANGED << urm_cancelled, urm_divRef, urm_console >>
               ELSE UrmCatch("TypeError")
             ELSE /\ urm_pc' = "awaitUrbanJson"
                  /\ urm_resp' = r2
                  /\ UNCHANGED << urm_cancelled, urm_divRef, urm_container,
                                  urm_console >>

\* a fetch promise rejects: Promise.all rejects
UrmRespReject(d) ==
  /\ UNCHANGED << page, cemVars, cmVars, homeVars, annVars >>
  /\ urm_pc = "awaitResponses"
  /\ urm_resp[d] = "pending"
  /\ UrmCatch("TypeError: Failed to fetch")

\* the json() promise render() awaits fulfils; after the third one:
\* if (cancelled) return; ...; if (divRef.current) { purge; Plotly.newPlot }
UrmJsonArrive ==
  /\ UNCHANGED << page, cemVars, cmVars, homeVars, annVars >>
  /\ urm_pc \in {"awaitUrbanJson", "awaitRoadsJson", "awaitHotelsJson"}
  /\ IF urm_pc = "awaitUrbanJson"
       THEN /\ urm_pc' = "awaitRoadsJson"
            /\ UNCHANGED << urm_resp, urm_cancelled, urm_divRef, urm_container,
                            urm_console >>
       ELSE IF urm_pc = "awaitRoadsJson"
         THEN /\ urm_pc' = "awaitHotelsJson"
              /\ UNCHANGED << urm_resp, urm_cancelled, urm_divRef, urm_container,
                              urm_console >>
         ELSE /\ urm_resp' = [e \in UrmDatasets |-> "consumed"]
              /\ UNCHANGED << urm_cancelled, urm_divRef, urm_console >>
              /\ IF urm_cancelled
                   THEN /\ urm_pc' = "cancelled"
                        /\ UNCHANGED urm_container
                   ELSE /\ urm_pc' = "plotted"
                        /\ \E w \in Worlds :
                             urm_container' =
                               IF urm_divRef THEN UrmPlot(Files(w)) ELSE urm_container

\* the json() promise render() awaits rejects
UrmJsonReject ==
  /\ UNCHANGED << page, cemVars, cmVars, homeVars, annVars >>
  /\ urm_pc \in {"awaitUrbanJson", "awaitRoadsJson", "awaitHotelsJson"}
  /\ UrmCatch("SyntaxError")

\* the cleanup of the effect: cancelled = true; if (divRef.current && purge)
\* purge. On an unmount React has cleared the ref before the cleanup runs
\* (detached); when the effect is torn down with the component kept (strict
\* mode, fast refresh) the container is still attached.
UrmCleanup(detached) ==
  /\ UNCHANGED << page, cemVars, cmVars, homeVars, annVars >>
  /\ urm_pc # "init"
  /\ ~ urm_cancelled
  /\ urm_cancelled' = TRUE
  /\ urm_divRef' = ~ detached
  /\ urm_container' =
       IF ~ detached /\ urm_container.kind = "plot" THEN Empty ELSE urm_container
  /\ UNCHANGED << urm_pc, urm_resp, urm_console >>

NextURM ==
  \/ UrmMount
  \/ \E d \in UrmDatasets, ok \in BOOLEAN : UrmRespArrive(d, ok)
  \/ \E d \in UrmDatasets : UrmRespReject(d)
  \/ UrmJsonArrive
  \/ UrmJsonReject
  \/ \E detached \in BOOLEAN : UrmCleanup(detached)

(***************************************************************************)
(* CombinedMap (src/components/Merged.tsx, the first component)             *)
(***************************************************************************)
CmDatasets == {"plants", "habitat"}
CmToggleNames == {"showPlants", "showHabitat"}
CmGeojsonNames == {"plantsGeojson", "habitatGeojson"}

\* habitat.features.forEach(f => { ... }) of fetchData
CmAnnotateHabitat(f) ==
  LET p == f.properties
      isl == Nullish(Get(p, "island"), Str(""))
      fill == Nullish(Lookup(habitatColors, isl), Str("#a6cee3"))
      text == "Island: " \o JsString(isl)
              \o "\nCritical Habitat: " \o JsString(Get(p, "critical_h"))
              \o "\nAcres: " \o LocaleOrNA(Get(p, "acres"))
              \o "\nArea: " \o LocaleOrNA(Get(p, "st_areashape"))
              \o "\nPerimeter: " \o LocaleOrNA(Get(p, "st_perimetershape"))
  IN  [f EXCEPT !.properties =
         SetProp(SetProp(p, "fillColor", fill), "hoverText", Str(text))]

\* the render effect of CombinedMap: the arguments of Plotly.newPlot
CmRenderEffect(s) ==
  LET allFeatures == FeaturesIf(s, "showPlants", "plantsGeojson")
                     \o FeaturesIf(s, "showHabitat", "habitatGeojson")
      allCoords == FlatMapCoords(allFeatures)
      outlineLayer ==
        [sourcetype |-> "geojson", source |-> allFeatures, type |-> "line",
         color |-> Str("black"), width |-> 1]
      scatterPoints ==
        [type |-> "scattermapbox", lat |-> CentroidLat(allFeatures),
         lon |-> CentroidLon(allFeatures), mode |-> "markers", size |-> 1,
         color |-> "rgba(0,0,0,0)", text |-> HoverTexts(allFeatures)]
  IN  [traces |-> << scatterPoints >>,
       layout |-> [style |-> "open-street-map",
                   center |-> IF Len(allFeatures) > 0
                                THEN [lat |-> Div(SumAt(allCoords, 2), Len(allCoords)),
                                      lon |-> Div(SumAt(allCoords, 1), Len(allCoords))]
                                ELSE DefaultCenter,
                   layers |-> IF Len(allFeatures) > 0
                                THEN FillLayers(allFeatures, 55) \o << outlineLayer >>
                                ELSE <<>>]]

InitCM ==
  /\ cm_toggles = [n \in CmToggleNames |-> FALSE]
  /\ cm_showEnvironmentalData = FALSE
  /\ cm_geojson = [n \in CmGeojsonNames |-> Null]
  /\ cm_pc = "init"
  /\ cm_resp = [d \in CmDatasets |-> "consumed"]
  /\ cm_plot = Null
  /\ cm_console = {}

\* the first commit: fetchData up to its first await, then the render effect
CmMount ==
  /\ page = "none"
  /\ page' = "CombinedMap"
  /\ cm_pc = "init"
  /\ cm_pc' = "awaitResponses"
  /\ cm_resp' = [d \in CmDatasets |-> "pending"]
  /\ cm_plot' = CmRenderEffect([toggles |-> cm_toggles, geojson |-> cm_geojson])
  /\ UNCHANGED << cm_toggles, cm_showEnvironmentalData, cm_geojson, cm_console >>
  /\ UNCHANGED << cemVars, urmVars, homeVars, annVars >>

\* onChange={e => setShowX(e.target.checked)}, rendered while the bar is expanded
CmToggleLayer(name) ==
  /\ UNCHANGED << page, cemVars, urmVars, homeVars, annVars >>
  /\ cm_pc # "init"
  /\ cm_showEnvironmentalData
  /\ cm_toggles' = [cm_toggles EXCEPT ![name] = ~ cm_toggles[name]]
  /\ cm_plot' = CmRenderEffect([toggles |-> cm_toggles', geojson |-> cm_geojson])
  /\ UNCHANGED << cm_showEnvironmentalData, cm_geojson, cm_pc, cm_resp, cm_console >>

\* onClick={() => setShowEnvironmentalData(!showEnvironmentalData)}
CmToggleBar ==
  /\ UNCHANGED << page, cemVars, urmVars, homeVars, annVars >>
  /\ cm_pc # "init"
  /\ cm_showEnvironmentalData' = ~ cm_showEnvironmentalData
  /\ UNCHANGED << cm_toggles, cm_geojson, cm_pc, cm_resp, cm_plot, cm_console >>

\* a fetch promise fulfils; with the last one fetchData goes on:
\* if (!plantsResp.ok || !habitatResp.ok) return; await plantsResp.json()
CmRespArrive(d, ok) ==
  /\ UNCHANGED << page, cemVars, urmVars, homeVars, annVars >>
  /\ cm_pc = "awaitResponses"
  /\ cm_resp[d] = "pending"
  /\ LET r2 == [cm_resp EXCEPT ![d] = IF ok THEN "ok" ELSE "notok"]
     IN  IF ~ PromiseAll(r2)
           THEN cm_resp' = r2 /\ cm_pc' = cm_pc
           ELSE IF \E e \in CmDatasets : r2[e] = "notok"
             THEN cm_resp' = [e \in CmDatasets |-> "consumed"] /\ cm_pc' = "failed"
             ELSE cm_resp' = r2 /\ cm_pc' = "awaitPlantsJson"
  /\ UNCHANGED << cm_toggles, cm_showEnvironmentalData, cm_geojson, cm_plot,
                  cm_console >>

\* catch (err) { console.error(err) }
CmCatch(err) ==
  /\ cm_pc' = "failed"
  /\ cm_resp' = [e \in CmDatasets |-> "consumed"]
  /\ cm_console' = cm_console \cup {err}
  /\ UNCHANGED << cm_toggles, cm_showEnvironmentalData, cm_geojson, cm_plot >>

\* a fetch promise rejects
CmRespReject(d) ==
  /\ UNCHANGED << page, cemVars, urmVars, homeVars, annVars >>
  /\ cm_pc = "awaitResponses"
  /\ cm_resp[d] = "pending"
  /\ CmCatch("TypeError: Failed to fetch")

\* the json() promise fetchData awaits fulfils; after the second one the
\* annotation loops, setPlantsGeojson, setHabitatGeojson and the render effect
CmJsonArrive ==
  /\ UNCHANGED << page, cemVars, urmVars, homeVars, annVars >>
  /\ cm_pc \in {"awaitPlantsJson", "awaitHabitatJson"}
  /\ IF cm_pc = "awaitPlantsJson"
       THEN /\ cm_pc' = "awaitHabitatJson"
            /\ UNCHANGED << cm_resp, cm_geojson, cm_plot >>
       ELSE /\ cm_pc' = "stored"
            /\ UNCHANGED cm_resp
            /\ \E w \in Worlds :
                 LET plants == Files(w).plants.features
                     habitat == Files(w).habitat.features
                 IN  cm_geojson' =
                       [plantsGeojson |->
                          FeatureCollection([i \in 1..Len(plants) |->
                                               AnnotatePlant(plants[i])]),
                        habitatGeojson |->
                          FeatureCollection([i \in 1..Len(habitat) |->
                                               CmAnnotateHabitat(habitat[i])])]
            /\ cm_plot' = CmRenderEffect([toggles |-> cm_toggles, geojson |-> cm_geojson'])
  /\ UNCHANGED << cm_toggles, cm_showEnvironmentalData, cm_console >>

\* the json() promise fetchData awaits rejects
CmJsonReject ==
  /\ UNCHANGED << page, cemVars, urmVars, homeVars, annVars >>
  /\ cm_pc \in {"awaitPlantsJson", "awaitHabitatJson"}
  /\ CmCatch("SyntaxError")

NextCM ==
  \/ CmMount
  \/ \E name \in CmToggleNames : CmToggleLayer(name)
  \/ CmToggleBar
  \/ \E d \in CmDatasets, ok \in BOOLEAN : CmRespArrive(d, ok)
  \/ \E d \in CmDatasets : CmRespReject(d)
  \/ CmJsonArrive
  \/ CmJsonReject

(***************************************************************************)
(* The sidebar HomePage (unnamed/part_002) and the PlotlyMap it mounts      *)
(* (src/components/PlotlyMap.tsx, the first component)                      *)
(***************************************************************************)
\* geojson.features.forEach(f => { ... }) of PlotlyMap
PmAnnotate(f) ==
  LET p == f.properties
      d == Nullish(Get(p, "density"), Str("O"))
      fill == Nullish(Lookup(densityColor, d), Str("#cccccc"))
      text == "Density: " \o JsString(d)
              \o "\n" \o JsString(Nullish(Lookup(densityMeaning, d), Str("")))
              \o "\nArea: " \o JsString(Get(p, "st_areashape"))
              \o "\nPerimeter: " \o JsString(Get(p, "st_perimetershape"))
  IN  [f EXCEPT !.properties =
         SetProp(SetProp(p, "fillColor", fill), "hoverText", Str(text))]

\* the arguments of Plotly.newPlot(divRef.current, [scatterPoints], layout);
\* the component takes no props
PmPlot(file) ==
  LET features == [i \in 1..Len(file.features) |-> PmAnnotate(file.features[i])]
      allCoords == FlatMapCoords(features)
      outlineLayer ==
        [sourcetype |-> "geojson", source |-> features, type |-> "line",
         color |-> Str("black"), width |-> 1]
      scatterPoints ==
        [type |-> "scattermapbox", lat |-> CentroidLat(features),
         lon |-> CentroidLon(features), mode |-> "markers", size |-> 1,
         color |-> "rgba(0,0,0,0)", text |-> HoverTexts(features)]
  IN  [kind |-> "plot",
       dataset |-> "plants",
       traces |-> << scatterPoints >>,
       layout |-> [style |-> "open-street-map",
                   center |-> [lat |-> Div(SumAt(allCoords, 2), Len(allCoords)),
                               lon |-> Div(SumAt(allCoords, 1), Len(allCoords))],
                   layers |-> FillLayers(features, 65) \o << outlineLayer >>]]

\* useState(true), useState(false)
InitHome ==
  /\ home_showPlants = TRUE
  /\ home_showCriticalHabitat = FALSE
  /\ pm_pc = "init"
  /\ pm_cancelled = FALSE
  /\ pm_divRef = TRUE
  /\ pm_container = Empty

\* the first commit: PlotlyMap's effect, render() up to await fetch(...)
HomeMount ==
  /\ page = "none"
  /\ page' = "HomePage"
  /\ pm_pc = "init"
  /\ pm_divRef
  /\ pm_pc' = "awaitResponse"
  /\ pm_cancelled' = FALSE
  /\ UNCHANGED << home_showPlants, home_showCriticalHabitat, pm_divRef, pm_container >>
  /\ UNCHANGED << cemVars, urmVars, cmVars, annVars >>

\* onChange={(e) => setShowPlants(e.target.checked)}: HomePage renders again
\* and passes the new props to PlotlyMap, whose effect has no dependencies
HomeTogglePlants ==
  /\ UNCHANGED << page, cemVars, urmVars, cmVars, annVars >>
  /\ pm_pc # "init"
  /\ pm_divRef
  /\ home_showPlants' = ~ home_showPlants
  /\ UNCHANGED << home_showCriticalHabitat, pm_pc, pm_cancelled, pm_divRef,
                  pm_container >>

\* onChange={(e) => setShowCriticalHabitat(e.target.checked)}
HomeToggleCriticalHabitat ==
  /\ UNCHANGED << page, cemVars, urmVars, cmVars, annVars >>
  /\ pm_pc # "init"
  /\ pm_divRef
  /\ home_showCriticalHabitat' = ~ home_showCriticalHabitat
  /\ UNCHANGED << home_showPlants, pm_pc, pm_cancelled, pm_divRef, pm_container >>

\* catch (err) { if (divRef.current) innerHTML = `Error loading map: ${err}` }
PmCatch(err) ==
  /\ pm_pc' = "failed"
  /\ pm_container' =
       IF pm_divRef THEN Html("Error loading map: " \o err) ELSE pm_container
  /\ UNCHANGED << home_showPlants, home_showCriticalHabitat, pm_cancelled, pm_divRef >>

\* the fetch promise fulfils: if (!resp.ok) { innerHTML = ...; return };
\* await resp.json()
PmRespArrive(ok) ==
  /\ UNCHANGED << page, cemVars, urmVars, cmVars, annVars >>
  /\ pm_pc = "awaitResponse"
  /\ IF ok
       THEN /\ pm_pc' = "awaitJson"
            /\ UNCHANGED << home_showPlants, home_showCriticalHabitat, pm_cancelled,
                            pm_divRef, pm_container >>
       ELSE IF pm_divRef
         THEN /\ pm_pc' = "failed"
              /\ pm_container' = Html("Failed to load GeoJSON.")
              /\ UNCHANGED << home_showPlants, home_showCriticalHabitat,
                              pm_cancelled, pm_divRef >>
         ELSE PmCatch("TypeError")

\* the fetch promise rejects
PmRespReject ==
  /\ UNCHANGED << page, cemVars, urmVars, cmVars, annVars >>
  /\ pm_pc = "awaitResponse"
  /\ PmCatch("TypeError: Failed to fetch")

\* the json() promise fulfils: if (cancelled) return; ...;
\* if (divRef.current) { purge; Plotly.newPlot }
PmJsonArrive ==
  /\ UNCHANGED << page, cemVars, urmVars, cmVars, annVars >>
  /\ pm_pc = "awaitJson"
  /\ UNCHANGED << home_showPlants, home_showCriticalHabitat, pm_cancelled, pm_divRef >>
  /\ IF pm_cancelled
       THEN /\ pm_pc' = "cancelled"
            /\ UNCHANGED pm_container
       ELSE /\ pm_pc' = "plotted"
            /\ \E w \in Worlds :
                 pm_container' =
                   IF pm_divRef THEN PmPlot(Files(w).plants) ELSE pm_container

\* the json() promise rejects
PmJsonReject ==
  /\ UNCHANGED << page, cemVars, urmVars, cmVars, annVars >>
  /\ pm_pc = "awaitJson"
  /\ PmCatch("SyntaxError")

\* the cleanup of PlotlyMap's effect: cancelled = true; if (divRef.current && purge) purge
PmCleanup(detached) ==
  /\ UNCHANGED << page, cemVars, urmVars, cmVars, annVars >>
  /\ pm_pc # "init"
  /\ ~ pm_cancelled
  /\ pm_cancelled' = TRUE
  /\ pm_divRef' = ~ detached
  /\ pm_container' =
       IF ~ detached /\ pm_container.kind = "plot" THEN Empty ELSE pm_container
  /\ UNCHANGED << home_showPlants, home_showCriticalHabitat, pm_pc >>

NextHome ==
  \/ HomeMount
  \/ HomeTogglePlants
  \/ HomeToggleCriticalHabitat
  \/ \E ok \in BOOLEAN : PmRespArrive(ok)
  \/ PmRespReject
  \/ PmJsonArrive
  \/ PmJsonReject
  \/ \E detached \in BOOLEAN : PmCleanup(detached)

(***************************************************************************)
(* The page: one map component is mounted per page load                     *)
(***************************************************************************)
vars == << page, cemVars, urmVars, cmVars, homeVars, annVars >>

InitAnnIdle == ann_in = Null /\ ann_out = Null

Init ==
  /\ page = "none"
  /\ InitCEM
  /\ InitURM
  /\ InitCM
  /\ InitHome
  /\ InitAnnIdle

Next == NextCEM \/ NextURM \/ NextCM \/ NextHome

Spec == Init /\ [][Next]_vars
(***************************************************************************)
(* The annotation loops as functions of one feature                         *)
(***************************************************************************)
\* the values a data file may hold for a categorical property; Undefined
\* stands for a feature without the property
Densities ==
  {Undefined, Null, Str("O"), Str("L"), Str("M"), Str("H"), Str("VH"), Str("OLO"),
   Str("X"), Str("")}

Islands ==
  {Undefined, Null, Str("Hawaii"), Str("Oahu"), Str("Maui"), Str("Kauai"),
   Str("Molokai"), Str("Lanai"), Str("Niihau"), Str("")}

Landcovers ==
  {Undefined, Null, Num(11), Str("11"), Num(92), Num(99), Num(0), Str("water")}

\* the property bag of a feature with the given categorical values
Bag(density, island, landcover) ==
  LET given == [density |-> density, island |-> island, landcover |-> landcover]
  IN  [n \in {m \in DOMAIN given : given[m] # Undefined} |-> given[n]]

InitAnnotate ==
  /\ page = "none"
  /\ InitCEM
  /\ InitURM
  /\ InitCM
  /\ InitHome
  /\ \E d \in Densities, i \in Islands, l \in Landcovers :
       ann_in = Feature(Polygon(<< Ring1 >>), Bag(d, i, l))
  /\ ann_out = Null

\* one pass of a loop body over the feature
Apply(loop, annotated) ==
  /\ ann_out = Null
  /\ ann_out' = [loop |-> loop, feature |-> annotated]
  /\ UNCHANGED << page, cemVars, urmVars, cmVars, homeVars, ann_in >>

ApplyAnnotatePlant == Apply("plants", AnnotatePlant(ann_in))
ApplyAnnotateHabitat == Apply("habitat", AnnotateHabitat(ann_in))
ApplyAnnotateLULC == Apply("LULC", AnnotateLULC(ann_in))
ApplyPmAnnotate == Apply("PlotlyMap", PmAnnotate(ann_in))
ApplyCmAnnotateHabitat == Apply("CombinedMap habitat", CmAnnotateHabitat(ann_in))

NextAnnotate ==
  \/ ApplyAnnotatePlant
  \/ ApplyAnnotateHabitat
  \/ ApplyAnnotateLULC
  \/ ApplyPmAnnotate
  \/ ApplyCmAnnotateHabitat

SpecAnnotate == InitAnnotate /\ [][NextAnnotate]_vars

(***************************************************************************)
(* The urban palette as a function of the urban features                    *)
(***************************************************************************)
\* the features the model appends to the urban file
MaxUrbanTail == 3

\* the distinct identifiers the urban file starts with: one more than the
\* palette has colors at most
MaxUrbanPrefix == 10

\* the identifier properties a feature of the file may have
UrbanBags ==
  {<<>>, [GEOID20 |-> Str("A")], [GEOID20 |-> Str("B")], [geoid20 |-> Str("A")],
   [GEOID20 |-> Null, geoid20 |-> Str("B")]}

\* n features with the distinct identifiers u1 .. un
UrbanPrefix(n) ==
  [i \in 1..n |-> Feature(Polygon(<< Ring1 >>), [GEOID20 |-> Str("u" \o ToString(i))])]

InitUrban ==
  /\ page = "none"
  /\ InitCEM
  /\ InitURM
  /\ InitCM
  /\ InitHome
  /\ \E n \in {0, MaxUrbanPrefix - 1, MaxUrbanPrefix}, m \in 0..MaxUrbanTail :
       \E tail \in [1..m -> UrbanBags] :
         ann_in = UrbanPrefix(n)
                    \o [i \in 1..m |-> Feature(Polygon(<< Ring2 >>), tail[i])]
  /\ ann_out = Null

\* the table of the assignment pass and the color each feature ends up with
ApplyUrban(component, table, colors) ==
  /\ ann_out = Null
  /\ ann_out' = [component |-> component, geoidToColor |-> table, colors |-> colors]
  /\ UNCHANGED << page, cemVars, urmVars, cmVars, homeVars, ann_in >>

\* CombinedEverythingMap: both passes of fetchAll, then props.fillColor
ApplyAnnotateUrban ==
  ApplyUrban("CombinedEverythingMap",
             AssignPalette(ann_in, "gid-", <<>>, 0).geoidToColor,
             [i \in 1..Len(ann_in) |->
                Get(AnnotateUrban(ann_in)[i].properties, "fillColor")])

\* UrbanRoadMap: the assignment loop of render(), then the color of
\* urbanFillLayers
ApplyUrmFillLayers ==
  LET table == AssignPalette(ann_in, "id-", <<>>, 0).geoidToColor
  IN  ApplyUrban("UrbanRoadMap", table,
                 [i \in 1..Len(ann_in) |-> UrmFillLayers(ann_in, table)[i].color])

NextUrban ==
  \/ ApplyAnnotateUrban
  \/ ApplyUrmFillLayers

SpecUrban == InitUrban /\ [][NextUrban]_vars
(***************************************************************************)
(* What the map containers hold                                             *)
(***************************************************************************)
\* the container of CombinedEverythingMap is written by Plotly.react alone
CemContainer ==
  IF cem_plot = Null THEN Empty ELSE [kind |-> "plot", plot |-> cem_plot]

\* the container of CombinedMap is written by Plotly.newPlot alone
CmContainer ==
  IF cm_plot = Null THEN Empty ELSE [kind |-> "plot", plot |-> cm_plot]

(***************************************************************************)
(* Properties                                                               *)
(***************************************************************************)
Range(s) == {s[i] : i \in 1..Len(s)}

PolygonDatasets == {"plants", "habitat", "urban", "LULC", "stateParks"}

\* the dataset's toggle is on and its data has been stored
On(d) == toggles[ShowOf[d]] /\ geojson[GeojsonOf[d]] # Null

\* the features stored for a dataset
Stored(d) ==
  IF geojson[GeojsonOf[d]] = Null THEN <<>> ELSE geojson[GeojsonOf[d]].features

PlotLayers == Range(cem_plot.layout.layers)
PlotTraces == Range(cem_plot.traces)
FillSources == {l.source[1] : l \in {x \in PlotLayers : x.type = "fill"}}
Outlined ==
  UNION {Range(l.source) :
           l \in {x \in PlotLayers : x.type = "line" /\ x.color = Str("black")}}
RoadLayers == {x \in PlotLayers : x.type = "line" /\ x.color = Str("#000000")}
TraceNames == {t.name : t \in {x \in PlotTraces : "name" \in DOMAIN x}}
TraceTexts == UNION {Range(t.text) : t \in {x \in PlotTraces : "text" \in DOMAIN x}}

\* C1: in CombinedEverythingMap the layers and traces of the most recent
\* Plotly.react are those of the datasets whose toggle is on and whose data
\* is stored: every feature of a polygon dataset has its fill layer, its
\* outline and its hover text exactly when the dataset is on, the road line
\* layer and the named urban and hotel traces are there exactly when their
\* dataset is on, no fill layer belongs to another dataset or appears twice,
\* and with every toggle off the layer list is empty.
C1_LayersFollowToggles ==
  cem_plot # Null =>
    /\ \A d \in PolygonDatasets : \A f \in Range(Stored(d)) :
         /\ f \in FillSources <=> On(d)
         /\ f \in Outlined <=> On(d)
         /\ Get(f.properties, "hoverText") \in TraceTexts <=> On(d)
    /\ RoadLayers # {} <=> On("roads")
    /\ \A l \in RoadLayers : l.source = Stored("roads")
    /\ "Hotels" \in TraceNames <=> On("hotels")
    /\ \A f \in Range(Stored("hotels")) :
         Get(f.properties, "hoverText") \in TraceTexts <=> On("hotels")
    /\ "Urban Areas" \in TraceNames <=> On("urban")
    /\ FillSources \subseteq UNION {Range(Stored(d)) : d \in {e \in PolygonDatasets : On(e)}}
    /\ Cardinality({i \in 1..Len(cem_plot.layout.layers) :
                      cem_plot.layout.layers[i].type = "fill"})
         = Cardinality(FillSources)
    /\ Outlined \subseteq FillSources
    /\ (\A n \in ToggleNames : ~ toggles[n]) => cem_plot.layout.layers = <<>>

\* C1 witness: after the load, plants and hotels are on, roads were switched
\* on and off again, and the render shows layers
C1_Witness ==
  /\ cem_pc = "stored"
  /\ toggles["showPlants"] /\ toggles["showHotels"] /\ ~ toggles["showRoads"]
  /\ Stored("roads") # <<>>
  /\ Stored("plants") # <<>>
  /\ cem_plot # Null
  /\ Len(cem_plot.layout.layers) > 2
  /\ Len(cem_plot.traces) = 3

\* the color a table gives a key, or else the default
ColorOrDefault(table, key, default) ==
  IF key \in DOMAIN table THEN Str(table[key]) ELSE Str(default)

\* the string of a categorical property, or else what a missing one counts as
KeyOr(p, name, missing) ==
  IF name \in DOMAIN p /\ p[name] # Null THEN JsString(p[name]) ELSE missing

\* C2: a lookup miss falls back to a default color. A plant feature gets
\* plantColors[density] when density is a key of the table and '#cccccc'
\* otherwise, a missing density counting as 'O' (in CombinedEverythingMap and
\* in PlotlyMap); a habitat feature gets habitatColors[island] or else
\* '#a6cee3'; a LULC feature gets lulcColors[String(landcover)] or else
\* '#cccccc', and its label is 'Unknown' on a miss. The fill color is never
\* undefined.
C2_LookupMissFallsBack ==
  ann_out # Null =>
    LET p == ann_in.properties
        q == ann_out.feature.properties
        fill == Get(q, "fillColor")
    IN  /\ fill # Undefined
        /\ fill.k = "str"
        /\ ann_out.loop \in {"plants", "PlotlyMap"} =>
             fill = ColorOrDefault(plantColors, KeyOr(p, "density", "O"), "#cccccc")
        /\ ann_out.loop \in {"habitat", "CombinedMap habitat"} =>
             fill = ColorOrDefault(habitatColors, KeyOr(p, "island", ""), "#a6cee3")
        /\ ann_out.loop = "LULC" =>
             LET code == KeyOr(p, "landcover", "")
             IN  /\ fill = ColorOrDefault(lulcColors, code, "#cccccc")
                 /\ Get(q, "hoverText") =
                      Str("Land Cover Code: " \o code \o "<br>"
                          \o (IF code \in DOMAIN lulcLabels
                                THEN lulcLabels[code] ELSE "Unknown")
                          \o "<br>Area: N/A sq units")

\* C2 witness: a plant feature whose density is not in the table was annotated
\* with the default color
C2_Witness ==
  /\ ann_out # Null
  /\ ann_out.loop = "plants"
  /\ Get(ann_in.properties, "density") = Str("X")
  /\ Get(ann_out.feature.properties, "fillColor") = Str("#cccccc")

\* the property is a string attached to the feature
HasString(f, name) ==
  name \in DOMAIN f.properties /\ f.properties[name].k = "str"

\* C3 as claimed: once the load has stored the datasets, every feature of
\* every stored dataset carries both fillColor and hoverText
C3_Original ==
  cem_pc = "stored" =>
    \A d \in DatasetSet : \A f \in Range(Stored(d)) :
      HasString(f, "fillColor") /\ HasString(f, "hoverText")

\* C3 as amended: once the load has stored the datasets, every feature of the
\* five polygon datasets carries both fillColor and hoverText, every hotel
\* feature carries hoverText and no fillColor, and the road features are
\* stored as fetched, with neither; every fill layer and every hover point of
\* a render has a defined color and text.
C3_DisplayFieldsWhereNeeded ==
  cem_pc = "stored" =>
    /\ \A d \in PolygonDatasets : \A f \in Range(Stored(d)) :
         HasString(f, "fillColor") /\ HasString(f, "hoverText")
    /\ \A f \in Range(Stored("hotels")) :
         HasString(f, "hoverText") /\ "fillColor" \notin DOMAIN f.properties
    /\ \E w \in Worlds : geojson["roadsGeojson"] = Files(w).roads
    /\ \A f \in Range(Stored("roads")) :
         "fillColor" \notin DOMAIN f.properties /\ "hoverText" \notin DOMAIN f.properties
    /\ cem_plot # Null =>
         /\ \A l \in {x \in PlotLayers : x.type = "fill"} : l.color.k = "str"
         /\ \A text \in TraceTexts : text.k = "str"

\* C3 witness: the load is complete, roads and hotels were stored, and the
\* hotels and a polygon dataset are rendered
C3_Witness ==
  /\ cem_pc = "stored"
  /\ Stored("roads") # <<>>
  /\ Stored("hotels") # <<>>
  /\ On("hotels")
  /\ On("LULC")
  /\ Stored("LULC") # <<>>

\* C4 as claimed: when a load fails, every map component shows an error
\* string in its map container (as long as the container is attached)
C4_Original ==
  /\ urm_pc = "failed" /\ urm_divRef => urm_container.kind = "html"
  /\ pm_pc = "failed" /\ pm_divRef => pm_container.kind = "html"
  /\ cem_pc = "failed" => CemContainer.kind = "html"
  /\ cm_pc = "failed" => CmContainer.kind = "html"

\* the error strings UrbanRoadMap writes
UrmErrors ==
  {"Failed to load one or more GeoJSON files.", "Error: TypeError",
   "Error: TypeError: Failed to fetch", "Error: SyntaxError"}

\* the error strings PlotlyMap writes
PmErrors ==
  {"Failed to load GeoJSON.", "Error loading map: TypeError",
   "Error loading map: TypeError: Failed to fetch", "Error loading map: SyntaxError"}

\* C4 as amended: when a load fails, UrbanRoadMap and PlotlyMap write an error
\* string into the map container if it is still attached;
\* CombinedEverythingMap reports the failure with console.error alone and
\* CombinedMap with console.error after a rejection and not at all after a
\* response that is not ok: the containers of these two never hold an error
\* string.
C4_ErrorStringWhereWritten ==
  /\ urm_pc = "failed" /\ urm_divRef =>
       urm_container.kind = "html" /\ urm_container.html \in UrmErrors
  /\ pm_pc = "failed" /\ pm_divRef =>
       pm_container.kind = "html" /\ pm_container.html \in PmErrors
  /\ CemContainer.kind # "html"
  /\ cem_pc = "failed" =>
       cem_console \in {{"One or more dataset fetches failed"},
                        {"Error fetching datasets"}}
  /\ CmContainer.kind # "html"
  /\ cm_pc = "failed" =>
       cm_console \in {{}, {"TypeError: Failed to fetch"}, {"SyntaxError"}}

\* C4 witness: the load of CombinedEverythingMap failed on a response that is
\* not ok, and the container still holds the map
C4_Witness ==
  /\ cem_pc = "failed"
  /\ cem_console = {"One or more dataset fetches failed"}
  /\ CemContainer.kind = "plot"

\* C5: in CombinedEverythingMap each of the seven files is requested exactly
\* once per mount: not before the mount, once by the mount, and never again
\* by a toggle, a group click, a quick zoom, a render or a failed load.
C5_FetchedOnce ==
  /\ cem_pc = "init" => \A d \in DatasetSet : cem_fetches[d] = 0
  /\ cem_pc # "init" => \A d \in DatasetSet : cem_fetches[d] = 1

\* C5 witness: the load failed and the user then switched a layer on and
\* zoomed; every file was requested once
C5_Witness ==
  /\ cem_pc = "failed"
  /\ toggles["showPlants"]
  /\ cem_view # Null /\ cem_view = centers["Oahu"]
  /\ \A d \in DatasetSet : cem_fetches[d] = 1

\* C6: the files of a component are fetched in parallel. While the responses
\* are awaited every fetch has been issued, and json() is called, a dataset
\* parsed or a dataset stored only when every response has arrived (and is
\* ok), in CombinedEverythingMap, UrbanRoadMap and CombinedMap alike.
C6_ParallelFetches ==
  /\ cem_pc = "awaitResponses" =>
       \A d \in DatasetSet : cem_fetches[d] = 1 /\ cem_resp[d] # "consumed"
  /\ cem_pc = "awaitJson" => \A d \in DatasetSet : cem_resp[d] = "ok"
  /\ (\E d \in DatasetSet : cem_json[d] = "parsed") =>
       \A d \in DatasetSet : cem_resp[d] = "ok"
  /\ (\E n \in GeojsonNames : geojson[n] # Null) =>
       /\ \A d \in DatasetSet : cem_resp[d] = "ok" /\ cem_json[d] = "parsed"
       /\ \A n \in GeojsonNames : geojson[n] # Null
  /\ urm_pc = "awaitResponses" => \A d \in UrmDatasets : urm_resp[d] # "consumed"
  /\ urm_pc \in {"awaitUrbanJson", "awaitRoadsJson", "awaitHotelsJson"} =>
       \A d \in UrmDatasets : urm_resp[d] = "ok"
  /\ urm_container.kind = "plot" => urm_pc = "plotted"
  /\ cm_pc = "awaitResponses" => \A d \in CmDatasets : cm_resp[d] # "consumed"
  /\ cm_pc \in {"awaitPlantsJson", "awaitHabitatJson", "stored"} =>
       \A d \in CmDatasets : cm_resp[d] = "ok"
  /\ (\E n \in CmGeojsonNames : cm_geojson[n] # Null) => cm_pc = "stored"

\* C6 witness: all seven responses have arrived, two of them last, and the
\* first datasets are parsed while others are still being parsed
C6_Witness ==
  /\ cem_pc = "awaitJson"
  /\ \A d \in DatasetSet : cem_resp[d] = "ok"
  /\ cem_json["stateParks"] = "parsed"
  /\ cem_json["plants"] = "pending"

\* a / b = c / d for quotients (NaN equals nothing)
QuotEq(x, y) ==
  x.k = "quot" /\ y.k = "quot" /\ x.num * y.den = y.num * x.den

\* the arithmetic mean of the i-th component of the coordinates
Mean(coords, i) == Div(SumAt(coords, i), Len(coords))

\* the exterior ring of a polygon, of the first polygon of a MultiPolygon
FirstRing(g) ==
  IF g.type = "MultiPolygon" THEN g.coordinates[1][1] ELSE g.coordinates[1]

\* the boundary of the whole shape: the exterior ring of every polygon
WholeBoundary(g) ==
  IF g.type = "MultiPolygon"
    THEN Flat([i \in 1..Len(g.coordinates) |-> g.coordinates[i][1]])
    ELSE g.coordinates[1]

\* the hover points of the centroid traces: latitude, longitude and text
HoverPoints ==
  UNION {{<< t.lat[i], t.lon[i], t.text[i] >> : i \in 1..Len(t.text)} :
           t \in {x \in PlotTraces : "text" \in DOMAIN x /\ x.color # "red"}}

\* the polygon features the render shows
ShownPolygons == UNION {Range(Stored(d)) : d \in {e \in PolygonDatasets : On(e)}}

\* C7 as claimed: the centroid of a polygonal feature is the arithmetic mean
\* of the boundary coordinates of the whole shape (of every polygon of a
\* MultiPolygon)
C7_Original ==
  cem_plot # Null =>
    \A f \in ShownPolygons : \E pt \in HoverPoints :
      /\ pt[3] = Get(f.properties, "hoverText")
      /\ QuotEq(pt[1], Mean(WholeBoundary(f.geometry), 2))
      /\ QuotEq(pt[2], Mean(WholeBoundary(f.geometry), 1))

\* C7 as amended: the centroid of a polygonal feature is the arithmetic mean
\* of the coordinates of one ring, the exterior ring of a Polygon and the
\* exterior ring of the first polygon of a MultiPolygon, and it is where the
\* feature's invisible hover marker is put: the hover points of a render are
\* these centroids with the hover texts of the shown polygon features, in
\* CombinedEverythingMap and in PlotlyMap.
C7_CentroidOfFirstRing ==
  /\ pm_container.kind = "plot" =>
       LET t == pm_container.traces[1]
           fill == SelectSeq(pm_container.layout.layers, LAMBDA l : l.type = "fill")
       IN  /\ Len(t.lat) = Len(fill) /\ Len(t.lon) = Len(fill)
           /\ \A i \in 1..Len(fill) :
                /\ QuotEq(t.lat[i], Mean(FirstRing(fill[i].source[1].geometry), 2))
                /\ QuotEq(t.lon[i], Mean(FirstRing(fill[i].source[1].geometry), 1))
  /\ cem_plot # Null =>
    /\ \A f \in ShownPolygons : \E pt \in HoverPoints :
         /\ pt[3] = Get(f.properties, "hoverText")
         /\ QuotEq(pt[1], Mean(FirstRing(f.geometry), 2))
         /\ QuotEq(pt[2], Mean(FirstRing(f.geometry), 1))
    /\ \A pt \in HoverPoints : \E f \in ShownPolygons :
         /\ pt[3] = Get(f.properties, "hoverText")
         /\ QuotEq(pt[1], Mean(FirstRing(f.geometry), 2))
         /\ QuotEq(pt[2], Mean(FirstRing(f.geometry), 1))

\* C7 witness: a MultiPolygon plant feature of two polygons is shown, with a
\* hover point that is not the mean of the whole shape
C7_Witness ==
  /\ cem_plot # Null
  /\ On("plants")
  /\ \E f \in Range(Stored("plants")) :
       /\ f.geometry.type = "MultiPolygon"
       /\ Len(f.geometry.coordinates) = 2
       /\ \E pt \in HoverPoints :
            /\ pt[3] = Get(f.properties, "hoverText")
            /\ ~ QuotEq(pt[1], Mean(WholeBoundary(f.geometry), 2))

\* every coordinate of every selected feature, dataset by dataset
SelectedCoords ==
  LET Sel(d) == IF On(d) THEN Stored(d) ELSE <<>>
      Of(d) == Flat([i \in 1..Len(Sel(d)) |-> GeomCoords(Sel(d)[i].geometry)])
  IN  Flat([i \in 1..Len(Datasets) |-> Of(Datasets[i])])

\* C8: in CombinedEverythingMap the center is lat 20.7, lon -156.0 when the
\* selected and stored datasets contribute no coordinate; otherwise it is the
\* sum of all their coordinates (every ring of every polygon, every vertex of
\* a road line, every hotel point) over their number. The divisor is never
\* zero and the center is never NaN.
C8_CenterOfSelection ==
  cem_plot # Null =>
    LET center == cem_plot.layout.center
        n == Len(SelectedCoords)
    IN  /\ center.lat.k = "quot" /\ center.lon.k = "quot"
        /\ center.lat.den > 0 /\ center.lon.den > 0
        /\ n = 0 => /\ center.lat.num * 10 = 207 * center.lat.den
                    /\ center.lon.num = (-156) * center.lon.den
        /\ n > 0 => /\ center.lat.num * n = SumAt(SelectedCoords, 2) * center.lat.den
                    /\ center.lon.num * n = SumAt(SelectedCoords, 1) * center.lon.den

\* C8 witness: roads, hotels and a polygon dataset with a hole are selected
\* and the center is their mean, not the default
C8_Witness ==
  /\ cem_plot # Null
  /\ On("roads") /\ On("hotels") /\ On("habitat")
  /\ Len(SelectedCoords) > 10
  /\ cem_plot.layout.center # DefaultCenter
  /\ cem_plot.layout.center.lat.den = Len(SelectedCoords)

\* C9: all layers of CombinedEverythingMap are off by default. In the state
\* after construction the seven layer toggles and both group flags are false
\* and nothing has been rendered; and every render made while all toggles are
\* false (as they are until the user toggles one), before or after the data
\* arrives, passes an empty layer list, the dummy trace alone and the default
\* center.
C9_AllOffByDefault ==
  /\ cem_pc = "init" =>
       /\ \A n \in ToggleNames : toggles[n] = FALSE
       /\ \A n \in GroupNames : groups[n] = FALSE
       /\ cem_plot = Null
  /\ (\A n \in ToggleNames : toggles[n] = FALSE) /\ cem_plot # Null =>
       /\ cem_plot.layout.layers = <<>>
       /\ cem_plot.traces = << dummyTrace >>
       /\ cem_plot.layout.center.lat = [k |-> "quot", num |-> 207, den |-> 10]
       /\ cem_plot.layout.center.lon = [k |-> "quot", num |-> -156, den |-> 1]

\* C9 witness: the data has arrived and been stored, the user has toggled
\* nothing, and the map was rendered
C9_Witness ==
  /\ cem_pc = "stored"
  /\ Stored("plants") # <<>>
  /\ Stored("hotels") # <<>>
  /\ \A n \in ToggleNames : toggles[n] = FALSE
  /\ \A n \in GroupNames : groups[n] = FALSE
  /\ cem_plot # Null

\* the layers the map of the sidebar page shows
PmShowsPlants ==
  /\ pm_container.kind = "plot"
  /\ pm_container.dataset = "plants"

PmShowsHabitat ==
  /\ pm_container.kind = "plot"
  /\ pm_container.dataset = "habitat"

\* C10 as claimed: on the sidebar page, once the map is plotted, the plant
\* layer is shown exactly when showPlants is checked and the critical-habitat
\* layer exactly when showCriticalHabitat is checked; showPlants starts
\* checked and showCriticalHabitat unchecked.
C10_Original ==
  /\ pm_pc = "init" => home_showPlants /\ ~ home_showCriticalHabitat
  /\ pm_container.kind = "plot" =>
       /\ PmShowsPlants <=> home_showPlants
       /\ PmShowsHabitat <=> home_showCriticalHabitat

(***************************************************************************)
(* C11: the legend follows the showLULC toggle                              *)
(***************************************************************************)
\* the state the current render of CombinedEverythingMap reads
CemState == [toggles |-> toggles, groups |-> groups, geojson |-> geojson]

\* CombinedEverythingMap is on the page
CemMounted == page = "CombinedEverythingMap" /\ cem_divRef

\* C11: while CombinedEverythingMap is mounted, the rendered output holds the
\* land-use/cover legend exactly when showLULC is on, in every reachable
\* state: before the load ends, after it failed, and after it stored an LULC
\* dataset with or without features.
C11_LegendFollowsToggle ==
  CemMounted => (Jsx(CemState).legend # Null <=> toggles["showLULC"])

\* C11 witness: the load failed, showLULC was switched on, and the legend is
\* rendered although no LULC dataset is stored
C11_Witness ==
  /\ CemMounted
  /\ cem_pc = "failed"
  /\ geojson["LULCGeojson"] = Null
  /\ toggles["showLULC"]
  /\ Jsx(CemState).legend # Null

(***************************************************************************)
(* C12: what happens to a dataset after it was parsed                       *)
(***************************************************************************)
\* the properties the load derives
Derived == {"fillColor", "hoverText"}

\* g is the feature f with nothing but derived properties written
AnnotationOf(f, g) ==
  /\ g.geometry = f.geometry
  /\ (DOMAIN g.properties) \ Derived = (DOMAIN f.properties) \ Derived
  /\ \A n \in (DOMAIN f.properties) \ Derived : g.properties[n] = f.properties[n]

\* the collection c is the parsed collection p with its features annotated
AnnotatedCollection(p, c) ==
  /\ c # Null
  /\ Len(c.features) = Len(p.features)
  /\ \A i \in 1..Len(p.features) : AnnotationOf(p.features[i], c.features[i])

SomeStored == \E n \in GeojsonNames : geojson[n] # Null
CmSomeStored == \E n \in CmGeojsonNames : cm_geojson[n] # Null

\* C12 as stated: no operation modifies the features of a dataset after it
\* was parsed from its response, so what CombinedEverythingMap has stored is
\* what some response parsed to.
C12_Original ==
  cem_pc = "stored" =>
    \E w \in Worlds : \A d \in DatasetSet : geojson[GeojsonOf[d]] = Files(w)[d]

\* C12, amended: a dataset is written once, by the load, and what is written
\* is the parsed collection with fillColor and hoverText attached to its
\* features and nothing else changed; once datasets are stored in
\* CombinedEverythingMap or CombinedMap, no step (render, toggle, group
\* click, zoom, unmount) changes them.
C12_StoredDataUnchanged ==
  [][/\ SomeStored => geojson' = geojson
     /\ CmSomeStored => cm_geojson' = cm_geojson
     /\ geojson' # geojson =>
          \E w \in Worlds : \A d \in DatasetSet :
            AnnotatedCollection(Files(w)[d], geojson'[GeojsonOf[d]])
     /\ cm_geojson' # cm_geojson =>
          \E w \in Worlds : \A d \in CmDatasets :
            AnnotatedCollection(Files(w)[d], cm_geojson'[GeojsonOf[d]])]_vars

\* C12 witness: the stored plants carry a fill color their response did not
\* have, and after the load a layer was switched on, rendered, and the map
\* zoomed, with the datasets still as the load stored them
C12_Witness ==
  /\ cem_pc = "stored"
  /\ geojson = Annotated(Files("typical"))
  /\ geojson["plantsGeojson"] # Files("typical").plants
  /\ toggles["showPlants"]
  /\ cem_plot # Null
  /\ cem_plot.layout.layers # <<>>
  /\ cem_view = centers["Oahu"]

(***************************************************************************)
(* C13: no state update after the cleanup of the fetch effect               *)
(***************************************************************************)
\* C13: once the cleanup of the fetch effect has run (cancelled = true),
\* whether it ran while the responses or the parsed bodies were awaited or
\* after fetchAll ended, no later step calls a setXGeojson setter: the seven
\* dataset states stay as they are and the load does not reach its "Save
\* states" block.
C13_NoSetterAfterCleanup ==
  [][cem_cancelled =>
       /\ geojson' = geojson
       /\ cem_pc' = "stored" => cem_pc = "stored"]_vars

\* C13 witness: the component was unmounted while the load was pending, all
\* promises settled afterwards, and fetchAll returned at a cancellation check
\* with nothing stored
C13_Witness ==
  /\ cem_cancelled
  /\ ~ cem_divRef
  /\ cem_pc = "cancelled"
  /\ \A n \in GeojsonNames : geojson[n] = Null

(***************************************************************************)
(* C14: the load is all-or-nothing                                          *)
(***************************************************************************)
NoneStored == \A n \in GeojsonNames : geojson[n] = Null
AllStored == \A n \in GeojsonNames : geojson[n] # Null

\* C14: the seven dataset states are null together or stored together; they
\* are stored only by the Save states block, after all seven responses were
\* ok and all seven bodies parsed; a load that failed has logged its error,
\* and from then on (the log only grows) all seven are null and every render
\* has an empty layer list whichever toggles are on.
C14_AllOrNothing ==
  /\ NoneStored \/ AllStored
  /\ AllStored =>
       /\ cem_pc = "stored"
       /\ \A d \in DatasetSet : cem_resp[d] = "ok" /\ cem_json[d] = "parsed"
  /\ cem_pc = "failed" => cem_console # {}
  /\ cem_console # {} =>
       /\ NoneStored
       /\ cem_pc = "failed"
       /\ cem_plot # Null => cem_plot.layout.layers = <<>>

\* C14 witness: one response was not ok, the load failed, and a render with
\* a toggle on has no layer
C14_Witness ==
  /\ cem_pc = "failed"
  /\ "One or more dataset fetches failed" \in cem_console
  /\ NoneStored
  /\ toggles["showPlants"] /\ toggles["showRoads"]
  /\ cem_plot # Null
  /\ cem_plot.layout.layers = <<>>

(***************************************************************************)
(* C15: UrbanRoadMap after the cleanup of its effect                        *)
(***************************************************************************)
\* C15 as stated: once the cleanup of the effect has run (cancelled = true)
\* no later step of the pending render() changes what the container element
\* holds, neither by a plot nor by an error message, whatever the outcome of
\* the fetches and whether or not the container is still attached.
C15_Original ==
  [][urm_cancelled => urm_container' = urm_container]_vars

(***************************************************************************)
(* C16, C17: the urban palette                                              *)
(***************************************************************************)
\* the identifier a feature carries: GEOID20, else geoid20, else none
OwnId(f) == Nullish(Get(f.properties, "GEOID20"), Get(f.properties, "geoid20"))

\* the synthetic prefix of each component
SyntheticPrefix ==
  [CombinedEverythingMap |-> "gid-", UrbanRoadMap |-> "id-"]

RECURSIVE PassIds(_, _, _)
\* the identifier each feature is seen under when the features are scanned
\* in order: its own, else the prefix and the number of distinct identifiers
\* seen before it
PassIds(features, prefix, seen) ==
  IF features = <<>>
    THEN <<>>
    ELSE LET id == IF NotNull(OwnId(Head(features)))
                     THEN JsString(OwnId(Head(features)))
                     ELSE prefix \o ToString(Cardinality(seen))
         IN  << id >> \o PassIds(Tail(features), prefix, seen \cup {id})

\* how many distinct identifiers were seen before the one of feature i was
\* first seen
Rank(ids, i) ==
  LET first == CHOOSE j \in 1..i :
                 ids[j] = ids[i] /\ \A h \in 1..(j - 1) : ids[h] # ids[i]
  IN  Cardinality({ids[h] : h \in 1..(first - 1)})

C17_Original ==
  ann_out # Null =>
    LET ids == PassIds(ann_in, SyntheticPrefix[ann_out.component], {})
    IN  \A i \in 1..Len(ann_in) :
          ~ NotNull(OwnId(ann_in[i])) =>
            /\ ids[i] \in DOMAIN ann_out.geoidToColor
            /\ \A j \in 1..Len(ann_in) : j # i => ids[j] # ids[i]
            /\ ann_out.colors[i] = Str(ann_out.geoidToColor[ids[i]])

(***************************************************************************)
(* C18: the outline layer and the order of the layers                       *)
(***************************************************************************)
\* the place of a layer in the fixed order: the fills of plants, habitat and
\* urban, the road line, the fills of LULC and state parks, the outline
FixedOrder ==
  [plants |-> 1, habitat |-> 2, urban |-> 3, roads |-> 4, LULC |-> 5,
   stateParks |-> 6, outline |-> 7]

LayerPlace(l) ==
  IF l.type = "fill"
    THEN FixedOrder[CHOOSE d \in PolygonDatasets : l.source[1] \in Range(Stored(d))]
    ELSE IF l.color = Str("black") THEN FixedOrder["outline"] ELSE FixedOrder["roads"]

\* the features of the polygon datasets that are on and stored
SelectedPolygonFeatures ==
  UNION {Range(Stored(d)) : d \in {e \in PolygonDatasets : On(e)}}

\* C18: in every render of CombinedEverythingMap the layers are in the fixed
\* order plants, habitat, urban, road line, LULC, state parks, outline,
\* whatever the order the toggles were switched in; there is at most one
\* black outline layer, it is there exactly when a feature of a selected and
\* stored polygon dataset exists, it is the last layer, and its source is
\* exactly those features, in the order of the datasets, never a road or a
\* hotel.
C18_OutlineLast ==
  cem_plot # Null =>
    LET L == cem_plot.layout.layers
        outlines == {i \in 1..Len(L) : L[i].type = "line" /\ L[i].color = Str("black")}
    IN  /\ \A i, j \in 1..Len(L) : i < j => LayerPlace(L[i]) <= LayerPlace(L[j])
        /\ Cardinality(outlines) <= 1
        /\ outlines # {} <=> SelectedPolygonFeatures # {}
        /\ \A i \in outlines :
             /\ i = Len(L)
             /\ Range(L[i].source) = SelectedPolygonFeatures
             /\ Range(L[i].source) \cap (Range(Stored("roads")) \cup Range(Stored("hotels"))) = {}
             /\ \A a, b \in 1..Len(L[i].source) :
                  a < b => LayerPlace([type |-> "fill", source |-> << L[i].source[a] >>])
                             <= LayerPlace([type |-> "fill", source |-> << L[i].source[b] >>])

\* C18 witness: state parks, roads, hotels and plants are on after the load;
\* the render has the two plant fills, the road line, the park fill and, last,
\* the outline of the three polygons
C18_Witness ==
  /\ cem_pc = "stored"
  /\ geojson = Annotated(Files("typical"))
  /\ toggles = [n \in ToggleNames |->
                  n \in {"showStateParks", "showRoads", "showHotels", "showPlants"}]
  /\ cem_plot # Null
  /\ Len(cem_plot.layout.layers) = 5
  /\ cem_plot.layout.layers[5].color = Str("black")
  /\ Len(cem_plot.layout.layers[5].source) = 3
  /\ cem_plot.layout.layers[3].color = Str("#000000")

(***************************************************************************)
(* C19: the trace list                                                      *)
(***************************************************************************)
\* [b] of the claim: 1 if b else 0
Count(b) == IF b THEN 1 ELSE 0

\* C19: every render of CombinedEverythingMap passes a trace list whose
\* first element is the dummy trace with empty lat and lon, and whose length
\* is 1 + [urban shown] + [hotels shown] + [plants or habitat shown] +
\* [LULC or state parks shown], a dataset being shown when its toggle is on
\* and its data is stored.
C19_TraceCount ==
  cem_plot # Null =>
    /\ Len(cem_plot.traces) >= 1
    /\ cem_plot.traces[1].lat = <<>> /\ cem_plot.traces[1].lon = <<>>
    /\ "text" \notin DOMAIN cem_plot.traces[1]
    /\ Len(cem_plot.traces) =
         1 + Count(On("urban")) + Count(On("hotels"))
           + Count(On("plants") \/ On("habitat"))
           + Count(On("LULC") \/ On("stateParks"))

\* C19 witness: urban, hotels, plants, habitat and LULC are on after the
\* load: five traces, plants and habitat sharing one
C19_Witness ==
  /\ cem_pc = "stored"
  /\ On("urban") /\ On("hotels") /\ On("plants") /\ On("habitat") /\ On("LULC")
  /\ ~ On("stateParks")
  /\ cem_plot # Null
  /\ Len(cem_plot.traces) = 5
  /\ cem_plot.traces[1] = dummyTrace

(***************************************************************************)
(* C20: the arrays of a trace are aligned                                   *)
(***************************************************************************)
\* the three arrays of trace t have one entry per feature
SameLength(t, fs) ==
  Len(t.lat) = Len(fs) /\ Len(t.lon) = Len(fs) /\ Len(t.text) = Len(fs)

\* entry i of lat and lon is the hover point of the polygon feature f
PolygonPoint(t, i, f) ==
  /\ QuotEq(t.lat[i], Mean(FirstRing(f.geometry), 2))
  /\ QuotEq(t.lon[i], Mean(FirstRing(f.geometry), 1))

\* entry i of lat and lon is the position of the hotel f
HotelPoint(t, i, f) ==
  t.lat[i] = f.geometry.coordinates[2] /\ t.lon[i] = f.geometry.coordinates[1]

\* trace t is built from the stored polygon features fs, entry by entry
AlignedPolygons(t, fs) ==
  /\ SameLength(t, fs)
  /\ \A i \in 1..Len(fs) :
       PolygonPoint(t, i, fs[i]) /\ t.text[i] = Get(fs[i].properties, "hoverText")

\* trace t is built from the stored hotels fs, entry by entry
AlignedHotels(t, fs) ==
  /\ SameLength(t, fs)
  /\ \A i \in 1..Len(fs) :
       HotelPoint(t, i, fs[i]) /\ t.text[i] = Get(fs[i].properties, "hoverText")

\* the features a dataset of CombinedEverythingMap contributes
Contribution(d) == IF On(d) THEN Stored(d) ELSE <<>>

\* the features behind each trace after the dummy trace, in trace order
Contributions ==
  (IF On("urban") THEN << [hotels |-> FALSE, fs |-> Stored("urban")] >> ELSE <<>>)
  \o (IF On("hotels") THEN << [hotels |-> TRUE, fs |-> Stored("hotels")] >> ELSE <<>>)
  \o (IF On("plants") \/ On("habitat")
        THEN << [hotels |-> FALSE,
                 fs |-> Contribution("plants") \o Contribution("habitat")] >>
        ELSE <<>>)
  \o (IF On("LULC") \/ On("stateParks")
        THEN << [hotels |-> FALSE,
                 fs |-> Contribution("LULC") \o Contribution("stateParks")] >>
        ELSE <<>>)

\* the features CombinedMap shows
CmContribution(name, toggle) ==
  IF cm_toggles[toggle] /\ cm_geojson[name] # Null
    THEN cm_geojson[name].features ELSE <<>>

\* C20: in every trace with hover text that a component has plotted, lat, lon
\* and text have one entry per feature of the datasets that contribute to
\* the trace, and entry i of each is computed from the i-th of these
\* features; in the shared traces the plants come before the habitat and
\* LULC before the state parks. This holds for CombinedEverythingMap,
\* CombinedMap, UrbanRoadMap (urban and hotel trace) and PlotlyMap.
C20_TraceArraysAligned ==
  /\ cem_plot # Null =>
       /\ Len(cem_plot.traces) = 1 + Len(Contributions)
       /\ \A k \in 1..Len(Contributions) :
            IF Contributions[k].hotels
              THEN AlignedHotels(cem_plot.traces[k + 1], Contributions[k].fs)
              ELSE AlignedPolygons(cem_plot.traces[k + 1], Contributions[k].fs)
  /\ cm_plot # Null =>
       AlignedPolygons(cm_plot.traces[1],
                       CmContribution("plantsGeojson", "showPlants")
                         \o CmContribution("habitatGeojson", "showHabitat"))
  /\ urm_container.kind = "plot" =>
       \E w \in Worlds :
         LET urban == Files(w).urban.features
             hotels == Files(w).hotels.features
             t1 == urm_container.traces[1]
             t2 == urm_container.traces[2]
         IN  /\ SameLength(t1, urban)
             /\ \A i \in 1..Len(urban) :
                  /\ PolygonPoint(t1, i, urban[i])
                  /\ t1.text[i] = UrmUrbanHoverText(urban[i])
                  /\ urm_container.layout.layers[i].source = << urban[i] >>
             /\ SameLength(t2, hotels)
             /\ \A i \in 1..Len(hotels) :
                  HotelPoint(t2, i, hotels[i]) /\ t2.text[i] = UrmHotelHoverText(hotels[i])
  /\ pm_container.kind = "plot" =>
       \E w \in Worlds :
         LET plants == Files(w).plants.features
             t == pm_container.traces[1]
         IN  /\ SameLength(t, plants)
             /\ \A i \in 1..Len(plants) :
                  /\ PolygonPoint(t, i, plants[i])
                  /\ t.text[i] = Get(PmAnnotate(plants[i]).properties, "hoverText")

\* C20 witness: plants, habitat, LULC and state parks are on after the load
\* of the typical files; the first shared trace has the two plants and then
\* the habitat, the second the LULC polygon and then the park
C20_Witness ==
  /\ cem_pc = "stored"
  /\ geojson = Annotated(Files("typical"))
  /\ toggles = [n \in ToggleNames |->
                  n \in {"showPlants", "showHabitat", "showLULC", "showStateParks"}]
  /\ cem_plot # Null
  /\ Len(cem_plot.traces) = 3
  /\ Len(cem_plot.traces[2].text) = 3
  /\ cem_plot.traces[2].text[3] = Get(Stored("habitat")[1].properties, "hoverText")
  /\ Len(cem_plot.traces[3].lat) = 2
  /\ cem_plot.traces[3].text[2] = Get(Stored("stateParks")[1].properties, "hoverText")
====
